---- MODULE Spec2Model ----
(***************************************************************************)
(* Model of the iROILS evaluation application: the PostgreSQL tables       *)
(* (entries, evaluations, institution_stats), the Redis keys, and the      *)
(* handlers that write them (DatabaseService, DatabaseManager,             *)
(* RedisManager, PostgresManager, SubmissionPage).                         *)
(***************************************************************************)
EXTENDS Integers, Sequences, FiniteSets, Bags, TLC

(***************************************************************************)
(* Bounds of the model.                                                    *)
(***************************************************************************)
MaxScore == 2
MaxOps == 3
MaxSaves == 2
MaxResetOps == 4
MaxSubmits == 2
MaxBatch == 2
MaxUploadOps == 2
MaxCalls == 2
MaxRedisOps == 3
MaxAdminOps == 3
MaxTime == 4
MaxPageSubmits == 3
MaxLegacySubmits == 2
MaxEntries == 2
MaxNavSubmits == 1
MaxSnapshotOps == 3

(***************************************************************************)
(* Value domains.                                                          *)
(***************************************************************************)
\* Python None (no row, no object)
NoRow == [none |-> TRUE]

Scores == 1..MaxScore
Feedbacks == {"", "fb"}
EventNumbers == {"1", "2"}
Payloads == {"a"}

\* Institution names as the pages pass them (selectbox values, the
\* evaluator credential map) and a padded spelling that the strip() calls
\* of the code provide for.
InstInputs == {"UAB", "MBPCC", "uab "}
InstNames == {"UAB", "MBPCC", "uab ", "uab", "mbpcc"}
CleanNames == {"uab", "mbpcc"}

\* evaluator -> institution of the credential map
evaluator_credentials ==
    [u \in {"aalexandrian", "nviscariello", "astam"} |->
        IF u = "astam" THEN "MBPCC" ELSE "UAB"]
Evaluators == DOMAIN evaluator_credentials

\* str.lower()
lower(s) ==
    CASE s = "UAB" -> "uab"
      [] s = "MBPCC" -> "mbpcc"
      [] OTHER -> s

\* str.strip()
strip(s) ==
    CASE s = "uab " -> "uab"
      [] OTHER -> s

\* institution.strip().lower(), and SQL LOWER(TRIM(institution))
institution_clean(s) == lower(strip(s))

(***************************************************************************)
(* State.                                                                  *)
(***************************************************************************)
VARIABLES
    entries,            \* PostgreSQL table entries: bag of rows
    evaluations,        \* PostgreSQL table evaluations: bag of rows
    institution_stats,  \* PostgreSQL table institution_stats: set of rows
    pc,                 \* position of each SubmissionPage session's run
    session,            \* session state and locals of each session's run
    result,             \* outcome of the last call of a service method
    n_ops,              \* number of operations started
    redis_client,       \* Redis: the keys <institution>:selected_entries,
                        \* <institution>:evaluation_scores and the hashes
                        \* <institution>_stats
    postgres_manager,   \* PostgresManager tables selected_entries and
                        \* evaluation_scores (one row per institution)
    caller,             \* position, arguments and locals of each caller of
                        \* RedisManager.update_institution_stats
    expected_stats,     \* history: the Redis stats hash of each institution
                        \* before the calls, plus the adjustments of the
                        \* calls begun
    admin,              \* AdminPage: the session keys all_entries and
                        \* total_entries of the admin's session
    auth,               \* the session state that AuthService reads and
                        \* writes, and the clock
    config,             \* ConfigManager: the class attributes _instance and
                        \* _config
    had_error,          \* history: some call raised an exception
    applied,            \* history: adjustments of the completed
                        \* add_evaluation_to_stats calls, per institution
    last_saved,         \* history: the evaluation most recently saved
                        \* under each (institution, evaluator, entry_number)
    last_written        \* history: the entry row most recently written
                        \* under each (institution, event_number)

tables == <<entries, evaluations, institution_stats>>
history == <<had_error, applied, last_saved, last_written>>

cache == <<redis_client, postgres_manager, caller, expected_stats>>

\* the state of the pages and services beside the stores
pages == <<admin, auth, config>>

vars == <<entries, evaluations, institution_stats, pc, session, result,
          n_ops, redis_client, postgres_manager, caller, expected_stats,
          admin, auth, config, had_error, applied, last_saved, last_written>>

\* what the SubmissionPage sessions leave alone
outside_sessions == <<result, last_saved, last_written, cache, pages>>

\* what the calls of the service methods leave alone
outside_service == <<pc, session, had_error, applied, cache, pages>>

\* the concurrent callers of RedisManager.update_institution_stats
Callers == {"c1", "c2"}

\* Redis and the PostgresManager tables hold nothing
NoKeys == [i \in InstInputs |-> NoRow]

\* a caller outside a call: the arguments and the locals of
\* update_institution_stats, the state of its pipeline
IdleCaller ==
    [pc |-> "idle", institution |-> "", summary_score |-> 0,
     tag_score |-> 0, is_new_evaluation |-> FALSE, old_summary_score |-> 0,
     old_tag_score |-> 0, cumulative_summary |-> 0, cumulative_tag |-> 0,
     total_evaluations |-> 0, watching |-> FALSE, dirty |-> FALSE,
     retries |-> 0]

\* no admin session keys, an empty session state at time 0, no ConfigManager
\* instance
InitPages ==
    /\ admin = [has_all_entries |-> FALSE, all_entries |-> << >>,
                total_entries |-> 0]
    /\ auth = [now |-> 0, session_state |-> << >>, logged_out |-> FALSE]
    /\ config = [instance |-> NoRow, file |-> NoRow, loads |-> 0,
                 objects |-> 0, returned |-> {}]

InitCache ==
    /\ redis_client = [selected_entries |-> NoKeys,
                       evaluation_scores |-> NoKeys, stats |-> NoKeys,
                       snapshot |-> NoKeys]
    /\ postgres_manager = [selected_entries |-> NoKeys,
                           evaluation_scores |-> NoKeys,
                           snapshots |-> NoKeys]
    /\ caller = [c \in Callers |-> IdleCaller]
    /\ expected_stats = NoKeys

Sessions == {"s1", "s2"}

(***************************************************************************)
(* Sums over finite sets and bags.                                         *)
(***************************************************************************)
RECURSIVE SumOver(_, _)
SumOver(S, f) ==
    IF S = {} THEN 0
    ELSE LET x == CHOOSE y \in S : TRUE
         IN  f[x] + SumOver(S \ {x}, f)

\* the rows of bag B that satisfy the predicate given as a set of rows
BagFilter(B, keep) == [r \in (BagToSet(B) \cap keep) |-> B[r]]

BagCount(B, keep) ==
    LET S == BagToSet(B) \cap keep
    IN  SumOver(S, [r \in S |-> B[r]])

(***************************************************************************)
(* Table evaluations (DatabaseService).                                    *)
(***************************************************************************)
EvaluationRow(i, u, e, s, t, f) ==
    [institution |-> i, evaluator |-> u, entry_number |-> e,
     summary_score |-> s, tag_score |-> t, feedback |-> f]

\* the rows that conflict with row under UNIQUE (institution, evaluator,
\* entry_number)
unique_evaluation(tbl, row) ==
    {r \in BagToSet(tbl) : /\ r.institution = row.institution
                           /\ r.evaluator = row.evaluator
                           /\ r.entry_number = row.entry_number}

\* INSERT INTO evaluations ... without a conflict target
insert_evaluation(tbl, row) == tbl (+) SetToBag({row})

\* INSERT INTO evaluations ... ON CONFLICT (institution, evaluator,
\* entry_number) DO UPDATE SET summary_score, tag_score, feedback
upsert_evaluation(tbl, row) ==
    LET conflict == unique_evaluation(tbl, row)
    IN  IF conflict = {}
        THEN tbl (+) SetToBag({row})
        ELSE BagFilter(tbl, BagToSet(tbl) \ conflict)
             (+) [r \in {row} |-> BagCount(tbl, conflict)]

\* DatabaseService.get_evaluation: the rows the SELECT matches; fetchone()
\* returns one of them, or None
get_evaluation_rows(tbl, institution, evaluator, entry_number) ==
    {r \in BagToSet(tbl) :
        /\ institution_clean(r.institution) = institution_clean(institution)
        /\ r.evaluator = evaluator
        /\ r.entry_number = entry_number}

get_evaluation(tbl, institution, evaluator, entry_number) ==
    LET rows == get_evaluation_rows(tbl, institution, evaluator, entry_number)
    IN  IF rows = {} THEN {NoRow} ELSE rows

(***************************************************************************)
(* Table institution_stats (DatabaseService, InstitutionStats).            *)
(***************************************************************************)
InstitutionStats(i, cs, ct, te) ==
    [institution |-> i, cumulative_summary |-> cs, cumulative_tag |-> ct,
     total_evaluations |-> te]

\* DatabaseService.get_institution_stats: the stored row, or the default
\* InstitutionStats(institution_clean)
get_institution_stats(tbl, institution) ==
    LET clean == institution_clean(institution)
        rows == {r \in tbl : institution_clean(r.institution) = clean}
    IN  IF rows = {}
        THEN {InstitutionStats(clean, 0, 0, 0)}
        ELSE {InstitutionStats(clean, r.cumulative_summary, r.cumulative_tag,
                               r.total_evaluations) : r \in rows}

\* DatabaseService.update_institution_stats: upsert on the primary key
update_institution_stats(tbl, stats) ==
    LET name == lower(stats.institution)
    IN  {r \in tbl : r.institution # name}
        \cup {InstitutionStats(name, stats.cumulative_summary,
                               stats.cumulative_tag, stats.total_evaluations)}

\* InstitutionStats.add_evaluation
add_evaluation(stats, summary_score, tag_score) ==
    [stats EXCEPT !.cumulative_summary = @ + summary_score,
                  !.cumulative_tag = @ + tag_score,
                  !.total_evaluations = @ + 1]

\* InstitutionStats.update_evaluation
update_evaluation(stats, old_summary, new_summary, old_tag, new_tag) ==
    [stats EXCEPT !.cumulative_summary = @ + (new_summary - old_summary),
                  !.cumulative_tag = @ + (new_tag - old_tag)]

(***************************************************************************)
(* Table entries (DatabaseService).                                        *)
(***************************************************************************)
DoNotSelect == "Do Not Select"
SelectForEvaluation == "Select for Evaluation"

EntryData(e, sel, p) ==
    [EventNumber |-> e, Selected |-> sel, Payload |-> p]

EntryRow(i, e, d) == [institution |-> i, event_number |-> e, data |-> d]

\* DatabaseService.get_entries: the rows of the institution, as Entry
\* objects (institution replaced by the cleaned name)
get_entries(tbl, institution, selected_only) ==
    LET clean == institution_clean(institution)
    IN  {EntryRow(clean, r.event_number, r.data) :
            r \in {x \in BagToSet(tbl) :
                     /\ institution_clean(x.institution) = clean
                     /\ (selected_only => x.data.Selected # DoNotSelect)}}

\* the orders in which a SELECT without ORDER BY may return a set of rows
Orders(S) ==
    {q \in [1..Cardinality(S) -> S] : \A i, j \in 1..Cardinality(S) :
                                         i # j => q[i] # q[j]}

\* the bag whose rows are the rows of B changed by the function f
MapBag(B, f) ==
    LET S == BagToSet(B)
    IN  [t \in {f[r] : r \in S} |->
            SumOver({r \in S : f[r] = t}, [r \in S |-> B[r]])]

EntryKey(r) == <<r.institution, r.event_number>>

\* the rows that conflict with row under UNIQUE (institution, event_number)
unique_institution_event_number(tbl, row) ==
    {r \in BagToSet(tbl) : EntryKey(r) = EntryKey(row)}

\* INSERT INTO entries ... without a conflict target
insert_entry(tbl, row) == tbl (+) SetToBag({row})

\* INSERT INTO entries ... ON CONFLICT (institution, event_number)
\* DO UPDATE SET data = EXCLUDED.data
upsert_entry(tbl, row) ==
    LET conflict == unique_institution_event_number(tbl, row)
    IN  IF conflict = {}
        THEN tbl (+) SetToBag({row})
        ELSE MapBag(tbl, [r \in BagToSet(tbl) |->
                            IF r \in conflict
                            THEN [r EXCEPT !.data = row.data] ELSE r])

\* psycopg2.extras.execute_values(..., page_size=100)
page_size == 100

RECURSIVE upsert_page(_, _)
upsert_page(tbl, page) ==
    IF page = << >> THEN tbl
    ELSE upsert_page(upsert_entry(tbl, Head(page)), Tail(page))

\* one INSERT ... ON CONFLICT DO UPDATE statement cannot affect a row a
\* second time: two values of a page with the same key make it fail
AffectsRowTwice(page) ==
    \E i, j \in 1..Len(page) : i # j /\ EntryKey(page[i]) = EntryKey(page[j])

\* execute_values: one statement per page of the values; the pages before a
\* failing statement stay committed (autocommit)
RECURSIVE execute_values(_, _, _)
execute_values(tbl, values, written) ==
    IF values = << >>
    THEN [ok |-> TRUE, table |-> tbl, written |-> written]
    ELSE LET n == IF Len(values) < page_size THEN Len(values) ELSE page_size
             page == SubSeq(values, 1, n)
         IN  IF AffectsRowTwice(page)
             THEN [ok |-> FALSE, table |-> tbl, written |-> written]
             ELSE execute_values(upsert_page(tbl, page),
                                 SubSeq(values, n + 1, Len(values)),
                                 written \o page)

\* UPDATE entries SET data = %s WHERE LOWER(TRIM(institution)) = %s
\* AND event_number = %s: the rows matched
update_entry_rows(tbl, institution, event_number) ==
    {r \in BagToSet(tbl) : /\ institution_clean(r.institution) = institution
                           /\ r.event_number = event_number}

(***************************************************************************)
(* SubmissionPage: one run of the page in which the form is submitted.     *)
(***************************************************************************)
IdleLocals(user, index) ==
    [username |-> user,
     evaluator_institution |-> evaluator_credentials[user],
     current_entry_index |-> index,
     entry |-> NoRow, existing_evaluation |-> NoRow,
     evaluation |-> NoRow, before |-> NoRow, stats |-> NoRow,
     failed_at |-> ""]

AtRest(s) == pc[s] \in {"idle", "error"}

\* SubmissionPage._render_content and _render_entry up to the form: the
\* current entry is picked and its existing evaluation is read; the evaluator
\* sets the sliders and presses the submit button
SP_render(s, summary_score, tag_score, feedback) ==
    /\ AtRest(s)
    /\ n_ops < MaxSubmits
    /\ LET loc == session[s]
           selected == get_entries(entries, loc.evaluator_institution, TRUE)
       IN  /\ selected # {}
           /\ \E selected_entries \in Orders(selected) :
              \E existing \in get_evaluation(evaluations,
                    selected_entries[1].institution, loc.username,
                    selected_entries[IF loc.current_entry_index
                                          >= Len(selected_entries)
                                       THEN 1
                                       ELSE loc.current_entry_index + 1]
                        .event_number) :
                 LET current_index ==
                         IF loc.current_entry_index >= Len(selected_entries)
                         THEN 0 ELSE loc.current_entry_index
                     entry == selected_entries[current_index + 1]
                 IN  session' = [session EXCEPT ![s] =
                        [IdleLocals(loc.username, loc.current_entry_index)
                           EXCEPT !.entry = entry,
                                  !.existing_evaluation = existing,
                                  !.evaluation = EvaluationRow(
                                      entry.institution, loc.username,
                                      entry.event_number, summary_score,
                                      tag_score, feedback)]]
    /\ pc' = [pc EXCEPT ![s] = "save_evaluation"]
    /\ n_ops' = n_ops + 1
    /\ UNCHANGED <<entries, evaluations, institution_stats, had_error,
                   applied>>
    /\ UNCHANGED outside_sessions

\* DatabaseService.save_evaluation, first statement: get_evaluation
SP_save_evaluation_check(s) ==
    /\ pc[s] = "save_evaluation"
    /\ LET ev == session[s].evaluation
       IN  \E row \in get_evaluation(evaluations, ev.institution,
                                     ev.evaluator, ev.entry_number) :
              session' = [session EXCEPT ![s].before = row]
    /\ pc' = [pc EXCEPT ![s] = "upsert"]
    /\ UNCHANGED <<entries, evaluations, institution_stats, n_ops,
                   had_error, applied>>
    /\ UNCHANGED outside_sessions

\* DatabaseService.save_evaluation, second statement: the upsert
SP_save_evaluation_upsert(s) ==
    /\ pc[s] = "upsert"
    /\ LET ev == session[s].evaluation
       IN  evaluations' = upsert_evaluation(evaluations,
               [ev EXCEPT !.institution = lower(ev.institution)])
    /\ pc' = [pc EXCEPT ![s] = "get_stats"]
    /\ UNCHANGED <<entries, institution_stats, session, n_ops, had_error,
                   applied>>
    /\ UNCHANGED outside_sessions

\* DatabaseService.add_evaluation_to_stats, first statement:
\* get_institution_stats
SP_add_evaluation_to_stats_get(s) ==
    /\ pc[s] = "get_stats"
    /\ \E stats \in get_institution_stats(institution_stats,
                        session[s].entry.institution) :
          session' = [session EXCEPT ![s].stats = stats]
    /\ pc' = [pc EXCEPT ![s] = "update_stats"]
    /\ UNCHANGED <<entries, evaluations, institution_stats, n_ops,
                   had_error, applied>>
    /\ UNCHANGED outside_sessions

\* the adjustment that the submission of session s asks for
Adjustment(loc) ==
    LET existing == loc.existing_evaluation
        is_new == existing = NoRow
        old_summary == IF is_new THEN 0 ELSE existing.summary_score
        old_tag == IF is_new THEN 0 ELSE existing.tag_score
    IN  [is_new |-> is_new, old_summary |-> old_summary, old_tag |-> old_tag,
         summary_score |-> loc.evaluation.summary_score,
         tag_score |-> loc.evaluation.tag_score]

\* DatabaseService.add_evaluation_to_stats on an InstitutionStats object
add_evaluation_to_stats(stats, a) ==
    IF a.is_new
    THEN add_evaluation(stats, a.summary_score, a.tag_score)
    ELSE update_evaluation(stats, a.old_summary, a.summary_score,
                           a.old_tag, a.tag_score)

\* DatabaseService.add_evaluation_to_stats, second part: the totals are
\* changed in memory and written back
SP_add_evaluation_to_stats_update(s) ==
    /\ pc[s] = "update_stats"
    /\ LET a == Adjustment(session[s])
           stats == add_evaluation_to_stats(session[s].stats, a)
           inst == stats.institution
       IN  /\ institution_stats' =
                  update_institution_stats(institution_stats, stats)
           /\ applied' = [applied EXCEPT ![inst] =
                  [cumulative_summary |->
                       @.cumulative_summary + a.summary_score - a.old_summary,
                   cumulative_tag |->
                       @.cumulative_tag + a.tag_score - a.old_tag,
                   total_evaluations |->
                       @.total_evaluations + (IF a.is_new THEN 1 ELSE 0)]]
    /\ pc' = [pc EXCEPT ![s] = "advance"]
    /\ UNCHANGED <<entries, evaluations, session, n_ops, had_error>>
    /\ UNCHANGED outside_sessions

\* SubmissionPage._render_entry, "Move to next entry" and st.rerun()
SP_advance(s) ==
    /\ pc[s] = "advance"
    /\ LET loc == session[s]
           total_entries ==
               Cardinality(get_entries(entries, loc.entry.institution, TRUE))
       IN  IF total_entries = 0
           THEN \* ZeroDivisionError, caught by the except clause
                /\ pc' = [pc EXCEPT ![s] = "error"]
                /\ had_error' = TRUE
                /\ session' = [session EXCEPT ![s].failed_at = pc[s]]
           ELSE /\ pc' = [pc EXCEPT ![s] = "idle"]
                /\ session' = [session EXCEPT ![s] = IdleLocals(loc.username,
                       (loc.current_entry_index + 1) % total_entries)]
                /\ UNCHANGED had_error
    /\ UNCHANGED <<entries, evaluations, institution_stats, n_ops, applied>>
    /\ UNCHANGED outside_sessions

\* a database call of the run raises (QueryError): the except clause of
\* _render_entry reports the error and the run ends
SP_except(s) ==
    /\ pc[s] \in {"save_evaluation", "upsert", "get_stats", "update_stats"}
    /\ pc' = [pc EXCEPT ![s] = "error"]
    /\ session' = [session EXCEPT ![s].failed_at = pc[s]]
    /\ had_error' = TRUE
    /\ UNCHANGED <<entries, evaluations, institution_stats, n_ops, applied>>
    /\ UNCHANGED outside_sessions

(***************************************************************************)
(* Specification of the evaluator sessions.                                *)
(***************************************************************************)
ZeroTotals ==
    [cumulative_summary |-> 0, cumulative_tag |-> 0, total_evaluations |-> 0]

\* the entries an administrator has uploaded and selected
InitEntries ==
    SetToBag({EntryRow("uab", e, EntryData(e, SelectForEvaluation, "a")) :
                 e \in EventNumbers}
             \cup {EntryRow("mbpcc", "1",
                            EntryData("1", SelectForEvaluation, "a"))})

InitSubmit ==
    /\ entries = InitEntries
    /\ evaluations = EmptyBag
    /\ institution_stats = {}
    /\ pc = [s \in Sessions |-> "idle"]
    /\ \E user \in Evaluators :
          session = [s \in Sessions |->
                        IdleLocals(IF s = "s1" THEN "aalexandrian" ELSE user,
                                   0)]
    /\ n_ops = 0
    /\ result = [op |-> "", ok |-> TRUE]
    /\ had_error = FALSE
    /\ applied = [i \in InstNames |-> ZeroTotals]
    /\ last_saved = {}
    /\ last_written = {}
    /\ InitPages
    /\ InitCache

NextSubmit ==
    \E s \in Sessions :
        \/ \E summary_score \in Scores, tag_score \in Scores,
              feedback \in Feedbacks :
              SP_render(s, summary_score, tag_score, feedback)
        \/ SP_save_evaluation_check(s)
        \/ SP_save_evaluation_upsert(s)
        \/ SP_add_evaluation_to_stats_get(s)
        \/ SP_add_evaluation_to_stats_update(s)
        \/ SP_advance(s)
        \/ SP_except(s)

SpecSubmit == InitSubmit /\ [][NextSubmit]_vars

(***************************************************************************)
(* Properties of the evaluator sessions.                                   *)
(***************************************************************************)
\* the evaluation rows of an institution
EvaluationsOf(inst) ==
    {r \in BagToSet(evaluations) : institution_clean(r.institution) = inst}

\* the totals computed from the evaluation rows of an institution
TotalsOfRows(inst) ==
    LET rows == EvaluationsOf(inst)
    IN  [cumulative_summary |->
             SumOver(rows, [r \in rows |-> evaluations[r] * r.summary_score]),
         cumulative_tag |->
             SumOver(rows, [r \in rows |-> evaluations[r] * r.tag_score]),
         total_evaluations |->
             SumOver(rows, [r \in rows |-> evaluations[r]])]

Totals(stats) ==
    [cumulative_summary |-> stats.cumulative_summary,
     cumulative_tag |-> stats.cumulative_tag,
     total_evaluations |-> stats.total_evaluations]

\* C1: once every submission has completed (no run in progress, none ended
\* in an exception), the institution_stats row of every institution holds
\* the number of its evaluation rows and the sums of their scores.
C1_StatsEqualEvaluationRows ==
    ((\A s \in Sessions : pc[s] = "idle") /\ ~had_error)
    => \A inst \in CleanNames :
          \A stats \in get_institution_stats(institution_stats, inst) :
             Totals(stats) = TotalsOfRows(inst)

\* C2: when no add_evaluation_to_stats call is in progress for an
\* institution, its stored totals are the sum of the adjustments of all the
\* calls that have completed: no adjustment is lost.
C2_NoAdjustmentLost ==
    \A inst \in CleanNames :
       (\A s \in Sessions :
           pc[s] = "update_stats" => session[s].stats.institution # inst)
       => \A stats \in get_institution_stats(institution_stats, inst) :
             Totals(stats) = applied[inst]

\* C3: a submission whose add_evaluation_to_stats raised after
\* save_evaluation had succeeded leaves the evaluation row as it was before
\* the submission (the submission is all-or-nothing).
C3_SubmissionAllOrNothing ==
    \A s \in Sessions :
       (pc[s] = "error"
        /\ session[s].failed_at \in {"get_stats", "update_stats"})
       => LET ev == session[s].evaluation
          IN  get_evaluation(evaluations, ev.institution, ev.evaluator,
                             ev.entry_number) = {session[s].before}

(***************************************************************************)
(* DatabaseService.save_evaluation called directly.                        *)
(***************************************************************************)
EvaluationKey(r) == <<r.institution, r.evaluator, r.entry_number>>

\* DatabaseService.save_evaluation: the existing evaluation is looked up,
\* the evaluation is upserted under the lower-cased institution, and the
\* call returns whether the lookup found nothing
save_evaluation(evaluation) ==
    /\ LET row == [evaluation EXCEPT !.institution = lower(@)]
       IN  /\ \E found \in get_evaluation(evaluations, evaluation.institution,
                      evaluation.evaluator, evaluation.entry_number) :
                 result' = [op |-> "save_evaluation", ok |-> TRUE,
                            is_new |-> (found = NoRow)]
           /\ evaluations' = upsert_evaluation(evaluations, row)
           /\ last_saved' =
                  {m \in last_saved : EvaluationKey(m) # EvaluationKey(row)}
                  \cup {row}
    /\ n_ops' = n_ops + 1
    /\ UNCHANGED <<entries, institution_stats, last_written>>
    /\ UNCHANGED outside_service

InitService ==
    /\ entries = EmptyBag
    /\ evaluations = EmptyBag
    /\ institution_stats = {}
    /\ pc = [s \in Sessions |-> "idle"]
    /\ session = [s \in Sessions |-> IdleLocals("aalexandrian", 0)]
    /\ result = [op |-> "", ok |-> TRUE]
    /\ n_ops = 0
    /\ had_error = FALSE
    /\ applied = [i \in InstNames |-> ZeroTotals]
    /\ last_saved = {}
    /\ last_written = {}
    /\ InitPages
    /\ InitCache

NextEval ==
    /\ n_ops < MaxSaves
    /\ \E institution \in InstInputs, evaluator \in {"aalexandrian", "astam"},
          summary_score \in Scores, tag_score \in Scores,
          feedback \in Feedbacks :
          save_evaluation(EvaluationRow(institution, evaluator, "1",
                                        summary_score, tag_score, feedback))

SpecEval == InitService /\ [][NextEval]_vars

\* C4: for every (institution, evaluator, entry_number) at most one
\* evaluation row exists, and it holds the scores and the feedback of the
\* most recent save_evaluation for that key.
C4_OneEvaluationPerKey ==
    /\ \A r \in BagToSet(evaluations) :
          BagCount(evaluations, unique_evaluation(evaluations, r)) = 1
    /\ \A m \in last_saved : BagIn(m, evaluations)

\* an evaluation was saved twice under one key, with other scores and
\* feedback the second time
C4_Witness ==
    /\ n_ops >= 2
    /\ result.op = "save_evaluation" /\ ~result.is_new
    /\ \E r \in BagToSet(evaluations) :
          r.institution = "uab" /\ r.summary_score = 2 /\ r.feedback = "fb"
    /\ BagCardinality(evaluations) = 1

(***************************************************************************)
(* DatabaseService.save_entry, save_entries and update_entry called        *)
(* directly.                                                               *)
(***************************************************************************)
\* the history of the rows written, after the rows of a sequence are written
RECURSIVE Written(_, _)
Written(last, rows) ==
    IF rows = << >> THEN last
    ELSE Written({m \in last : EntryKey(m) # EntryKey(Head(rows))}
                 \cup {Head(rows)}, Tail(rows))

\* DatabaseService.save_entry
save_entry(entry) ==
    /\ LET row == EntryRow(lower(entry.institution), entry.event_number,
                           entry.data)
       IN  /\ entries' = upsert_entry(entries, row)
           /\ last_written' = Written(last_written, <<row>>)
           /\ result' = [op |-> "save_entry", ok |-> TRUE,
                         stored_before |->
                             unique_institution_event_number(entries, row)
                             # {}]
    /\ n_ops' = n_ops + 1
    /\ UNCHANGED <<evaluations, institution_stats, last_saved>>
    /\ UNCHANGED outside_service

\* DatabaseService.save_entries
save_entries(batch) ==
    /\ IF batch = << >>
       THEN /\ result' = [op |-> "save_entries", ok |-> TRUE,
                          stored_before |-> FALSE]
            /\ UNCHANGED <<entries, last_written>>
       ELSE LET values == [i \in 1..Len(batch) |->
                             EntryRow(lower(batch[i].institution),
                                      batch[i].event_number, batch[i].data)]
                done == execute_values(entries, values, << >>)
            IN  /\ entries' = done.table
                /\ last_written' = Written(last_written, done.written)
                /\ result' = [op |-> "save_entries", ok |-> done.ok,
                              stored_before |->
                                  \E i \in 1..Len(values) :
                                     unique_institution_event_number(
                                         entries, values[i]) # {}]
    /\ n_ops' = n_ops + 1
    /\ UNCHANGED <<evaluations, institution_stats, last_saved>>
    /\ UNCHANGED outside_service

\* DatabaseService.update_entry
update_entry(entry) ==
    /\ LET matched == update_entry_rows(entries, lower(entry.institution),
                                        entry.event_number)
           new == [r \in BagToSet(entries) |->
                      IF r \in matched THEN [r EXCEPT !.data = entry.data]
                      ELSE r]
       IN  IF matched = {}
           THEN \* rowcount = 0: RecordNotFoundError
                /\ result' = [op |-> "update_entry", ok |-> FALSE,
                              stored_before |-> FALSE]
                /\ UNCHANGED <<entries, last_written>>
           ELSE /\ entries' = MapBag(entries, new)
                /\ last_written' =
                       {m \in last_written :
                           \A r \in matched : EntryKey(m) # EntryKey(r)}
                       \cup {new[r] : r \in matched}
                /\ result' = [op |-> "update_entry", ok |-> TRUE,
                              stored_before |-> TRUE]
    /\ n_ops' = n_ops + 1
    /\ UNCHANGED <<evaluations, institution_stats, last_saved>>
    /\ UNCHANGED outside_service

SelFlags == {DoNotSelect, SelectForEvaluation}

\* the Entry objects the pages build
EntryInputs(institutions) ==
    {EntryRow(i, e, EntryData(e, sel, p)) :
        i \in institutions, e \in EventNumbers, sel \in SelFlags,
        p \in Payloads}

\* the sequences of at most n elements of S
SeqsUpTo(S, n) == UNION {[1..k -> S] : k \in 0..n}

NextEntry ==
    /\ n_ops < MaxOps
    /\ \/ \E entry \in EntryInputs(InstInputs) : save_entry(entry)
       \/ \E i \in InstInputs :
             \E batch \in SeqsUpTo(EntryInputs({i}), MaxBatch) :
                save_entries(batch)
       \/ \E entry \in EntryInputs(InstInputs) : update_entry(entry)

SpecEntry == InitService /\ [][NextEntry]_vars

\* C10: at most one entry row exists for each (institution, event_number),
\* and it holds the data of the most recent write for that key.
C10_OneEntryPerKey ==
    /\ \A r \in BagToSet(entries) :
          BagCount(entries,
                   unique_institution_event_number(entries, r)) = 1
    /\ \A m \in last_written : BagIn(m, entries)

\* a batch that repeats an event number already stored has been saved
C10_Witness ==
    /\ n_ops >= 2
    /\ result.op = "save_entries" /\ result.ok /\ result.stored_before
    /\ BagCardinality(entries) = 2
    /\ \E r \in BagToSet(entries) : r.data.Selected = SelectForEvaluation

(***************************************************************************)
(* DatabaseService.reset_institution_data.                                 *)
(***************************************************************************)
\* WHERE institution = %s, without LOWER(TRIM(...))
where_institution_is(r, name) == r.institution = name

\* WHERE LOWER(TRIM(institution)) = %s
where_institution(r, name) == institution_clean(r.institution) = name

\* DELETE FROM <table> WHERE LOWER(TRIM(institution)) = %s, on a bag of rows
delete_from(tbl, name) ==
    BagFilter(tbl, {r \in BagToSet(tbl) : ~where_institution(r, name)})

\* DatabaseService.reset_institution_data: three DELETE statements, each
\* committed on its own; a statement that raises ends the call with a
\* QueryError after the statements before it have taken effect
reset_institution_data(institution, executed) ==
    /\ LET name == institution_clean(institution)
       IN  /\ entries' = IF executed >= 1 THEN delete_from(entries, name)
                         ELSE entries
           /\ evaluations' = IF executed >= 2
                             THEN delete_from(evaluations, name)
                             ELSE evaluations
           /\ institution_stats' =
                  IF executed >= 3
                  THEN {r \in institution_stats : ~where_institution(r, name)}
                  ELSE institution_stats
           /\ last_written' = {m \in last_written : m \in BagToSet(entries')}
           /\ last_saved' = {m \in last_saved : m \in BagToSet(evaluations')}
           /\ result' = [op |-> "reset_institution_data",
                         ok |-> (executed = 3), institution |-> institution,
                         deleted |->
                             BagCardinality(entries)
                             - BagCardinality(delete_from(entries, name))]
    /\ n_ops' = n_ops + 1
    /\ UNCHANGED outside_service

\* DatabaseService.update_institution_stats called directly
update_institution_stats_call(stats) ==
    /\ institution_stats' = update_institution_stats(institution_stats, stats)
    /\ result' = [op |-> "update_institution_stats", ok |-> TRUE]
    /\ n_ops' = n_ops + 1
    /\ UNCHANGED <<entries, evaluations, last_saved, last_written>>
    /\ UNCHANGED outside_service

NextReset ==
    /\ n_ops < MaxResetOps
    /\ \/ \E i \in InstInputs :
             save_entry(EntryRow(i, "1", EntryData("1", DoNotSelect, "a")))
       \/ \E i \in InstInputs, score \in Scores :
             save_evaluation(
                 EvaluationRow(i, "aalexandrian", "1", score, 1, ""))
       \/ \E i \in InstInputs, score \in Scores :
             update_institution_stats_call(InstitutionStats(i, score, 1, 1))
       \/ \E i \in InstInputs, executed \in 0..3 :
             reset_institution_data(i, executed)

SpecReset == InitService /\ [][NextReset]_vars

\* the rows of the three tables that belong, or do not belong, to the
\* institution with the cleaned name
RowsOf(name, e, v, st) ==
    [entries |-> BagFilter(e, {r \in BagToSet(e) :
                                  institution_clean(r.institution) = name}),
     evaluations |-> BagFilter(v, {r \in BagToSet(v) :
                                  institution_clean(r.institution) = name}),
     institution_stats |->
         {r \in st : institution_clean(r.institution) = name}]

\* C9: a reset_institution_data(I) that returns without error leaves no
\* entry, evaluation or institution_stats row whose trimmed, lower-cased
\* institution is that of I, and leaves the rows of every other institution
\* as they were.
C9_ResetFrame ==
    [][(n_ops' = n_ops + 1 /\ result'.op = "reset_institution_data"
        /\ result'.ok)
       => /\ RowsOf(institution_clean(result'.institution),
                    entries', evaluations', institution_stats')
             = [entries |-> EmptyBag, evaluations |-> EmptyBag,
                institution_stats |-> {}]
          /\ \A other \in CleanNames \ {institution_clean(result'.institution)} :
                RowsOf(other, entries', evaluations', institution_stats')
                = RowsOf(other, entries, evaluations, institution_stats)]_vars

\* a reset has deleted the entries of an institution, one of them stored
\* under a padded name, while rows of another institution are stored
C9_Witness ==
    /\ result.op = "reset_institution_data" /\ result.ok
    /\ result.institution = "UAB" /\ result.deleted = 2
    /\ \E r \in BagToSet(entries) : r.institution = "mbpcc"

(***************************************************************************)
(* DatabaseManager (src/database_manager.py): the entries are written to   *)
(* Redis and to the table entries.  DatabaseManager of the app package     *)
(* (src/app/database_manager.py) writes the table only.                    *)
(***************************************************************************)
\* the institutions the pages pass to the DatabaseManager
DMInstitutions == {"UAB", "MBPCC"}

\* the entry dictionaries of an upload
EntryDicts ==
    {EntryData(e, sel, p) : e \in EventNumbers, sel \in SelFlags,
                            p \in Payloads}

\* the elements of a sequence
Range(q) == {q[i] : i \in 1..Len(q)}

\* DatabaseManager.get_selected_entries: the list under the Redis key, the
\* empty list when the key is absent
DM_get_selected_entries(institution) ==
    IF redis_client.selected_entries[institution] = NoRow THEN << >>
    ELSE redis_client.selected_entries[institution].json

\* redis_client.set(f"{institution}:selected_entries", json.dumps(entries))
redis_set_selected_entries(institution, selected) ==
    [redis_client EXCEPT
        !.selected_entries[institution] = [json |-> selected]]

\* the values of an upload: (institution, entry.get('Event Number'), entry)
EntryValues(institution, selected) ==
    [i \in 1..Len(selected) |->
        EntryRow(institution, selected[i].EventNumber, selected[i])]

\* DatabaseManager.save_selected_entries: the list is set in Redis, the rows
\* of the institution are deleted from the table (committed on its own), and
\* the list is inserted in one statement per page
DM_save_selected_entries(institution, selected) ==
    /\ LET name == institution_clean(institution)
           kept == delete_from(entries, name)
           done == execute_values(kept, EntryValues(name, selected), << >>)
       IN  /\ redis_client' = redis_set_selected_entries(institution, selected)
           /\ entries' = done.table
           /\ last_written' =
                  Written({m \in last_written : BagIn(m, kept)}, done.written)
           /\ had_error' = (had_error \/ ~done.ok)
           /\ result' = [op |-> "DatabaseManager.save_selected_entries",
                         ok |-> done.ok, institution |-> institution,
                         deleted |-> BagCardinality(entries)
                                     - BagCardinality(kept)]
    /\ n_ops' = n_ops + 1
    /\ UNCHANGED <<evaluations, institution_stats, last_saved, pc, session, pages,
                   applied, postgres_manager, caller, expected_stats>>

\* the list with the first entry of the event number replaced
RECURSIVE replace_first(_, _)
replace_first(list, updated_entry) ==
    IF list = << >> THEN << >>
    ELSE IF Head(list).EventNumber = updated_entry.EventNumber
         THEN <<updated_entry>> \o Tail(list)
         ELSE <<Head(list)>> \o replace_first(Tail(list), updated_entry)

\* DatabaseManager.update_entry: UPDATE entries ... WHERE institution = %s
\* AND event_number = %s with the name as given, then the entry of the Redis
\* list with that event number is replaced and the list is set
DM_update_entry(institution, updated_entry) ==
    /\ LET matched == {r \in BagToSet(entries) :
                          /\ r.institution = institution
                          /\ r.event_number = updated_entry.EventNumber}
           new == [r \in BagToSet(entries) |->
                      IF r \in matched THEN [r EXCEPT !.data = updated_entry]
                      ELSE r]
       IN  /\ entries' = MapBag(entries, new)
           /\ last_written' =
                  {m \in last_written :
                      \A r \in matched : EntryKey(m) # EntryKey(r)}
                  \cup {new[r] : r \in matched}
           /\ result' = [op |-> "DatabaseManager.update_entry", ok |-> TRUE,
                         institution |-> institution,
                         matched |-> Cardinality(matched)]
    /\ redis_client' =
           redis_set_selected_entries(
               institution,
               replace_first(DM_get_selected_entries(institution),
                             updated_entry))
    /\ n_ops' = n_ops + 1
    /\ UNCHANGED <<evaluations, institution_stats, last_saved, pc, session, pages,
                   had_error, applied, postgres_manager, caller,
                   expected_stats>>

\* the keys of {entry['Event Number']: entry for entry in all_entries}, in
\* the order of their first occurrence
RECURSIVE dict_keys(_)
dict_keys(list) ==
    IF list = << >> THEN << >>
    ELSE LET front == dict_keys(SubSeq(list, 1, Len(list) - 1))
             k == list[Len(list)].EventNumber
         IN  IF k \in Range(front) THEN front ELSE Append(front, k)

\* the value of the dictionary for a key: the last entry with that event
\* number
dict_value(list, k) ==
    list[CHOOSE i \in 1..Len(list) :
            /\ list[i].EventNumber = k
            /\ \A j \in (i + 1)..Len(list) : list[j].EventNumber # k]

\* the Redis part of update_entries_batch: the entries of the list whose
\* event number is in the batch are replaced, no entry is added
batch_replace(all_entries, batch) ==
    LET keys == dict_keys(all_entries)
    IN  [n \in 1..Len(keys) |->
            IF \E i \in 1..Len(batch) : batch[i].EventNumber = keys[n]
            THEN dict_value(batch, keys[n])
            ELSE dict_value(all_entries, keys[n])]

\* DatabaseManager.update_entries_batch: the batch is upserted into the table
\* under the name as given, then the Redis list is rewritten; a statement
\* that fails raises before Redis is touched
DM_update_entries_batch(institution, batch) ==
    /\ LET done == execute_values(entries, EntryValues(institution, batch),
                                  << >>)
       IN  /\ entries' = done.table
           /\ last_written' = Written(last_written, done.written)
           /\ had_error' = (had_error \/ ~done.ok)
           /\ result' = [op |-> "DatabaseManager.update_entries_batch",
                         ok |-> done.ok, institution |-> institution]
           /\ redis_client' =
                  IF done.ok
                  THEN redis_set_selected_entries(
                           institution,
                           batch_replace(DM_get_selected_entries(institution),
                                         batch))
                  ELSE redis_client
    /\ n_ops' = n_ops + 1
    /\ UNCHANGED <<evaluations, institution_stats, last_saved, pc, session, pages,
                   applied, postgres_manager, caller, expected_stats>>

\* DatabaseManager.save_selected_entries of the app package: one upsert per
\* entry under institution.lower(), nothing is deleted
app_save_selected_entries(institution, selected) ==
    /\ LET values == EntryValues(lower(institution), selected)
       IN  /\ entries' = upsert_page(entries, values)
           /\ last_written' = Written(last_written, values)
           /\ result' = [op |-> "app.DatabaseManager.save_selected_entries",
                         ok |-> TRUE, institution |-> institution]
    /\ n_ops' = n_ops + 1
    /\ UNCHANGED <<evaluations, institution_stats, last_saved>>
    /\ UNCHANGED outside_service

NextCache ==
    /\ n_ops < MaxOps
    /\ \E institution \in DMInstitutions :
          \/ \E selected \in SeqsUpTo(EntryDicts, MaxBatch) :
                DM_save_selected_entries(institution, selected)
          \/ \E updated_entry \in EntryDicts :
                DM_update_entry(institution, updated_entry)
          \/ \E batch \in SeqsUpTo(EntryDicts, MaxBatch) :
                DM_update_entries_batch(institution, batch)

\* the DatabaseManager calls that write Redis and the table
SpecCache == InitService /\ [][NextCache]_vars

NextUploads ==
    /\ n_ops < MaxUploadOps
    /\ \/ \E institution \in DMInstitutions :
             \/ \E selected \in SeqsUpTo(EntryDicts, MaxBatch) :
                   \/ DM_save_selected_entries(institution, selected)
                   \/ DM_update_entries_batch(institution, selected)
                   \/ app_save_selected_entries(institution, selected)
                   \/ save_entries(EntryValues(institution, selected))
             \/ \E updated_entry \in EntryDicts :
                   \/ DM_update_entry(institution, updated_entry)
                   \/ save_entry(EntryRow(institution,
                                          updated_entry.EventNumber,
                                          updated_entry))
                   \/ update_entry(EntryRow(institution,
                                            updated_entry.EventNumber,
                                            updated_entry))
             \/ \E score \in Scores :
                   save_evaluation(EvaluationRow(institution, "aalexandrian",
                                                 "1", score, 1, ""))

\* uploads, selection toggles, entry updates and evaluations, without a reset
SpecUploads == InitService /\ [][NextUploads]_vars

\* the (institution, event_number) pairs stored, by cleaned institution name
StoredKeys(tbl) ==
    {<<institution_clean(r.institution), r.event_number>> :
        r \in BagToSet(tbl)}

\* C5: without a reset an entry is never deleted: every (institution,
\* event_number) that is stored is still stored after each operation.
C5_NeverDeleted ==
    [][StoredKeys(entries) \subseteq StoredKeys(entries')]_vars

\* the entries held under the institution's Redis key
RedisEntries(institution) == Range(DM_get_selected_entries(institution))

\* the entries held for the institution in the table
PostgresEntries(institution) ==
    {r.data : r \in {x \in BagToSet(entries) :
                        institution_clean(x.institution)
                        = institution_clean(institution)}}

\* C6: after DatabaseManager.save_selected_entries, update_entry and
\* update_entries_batch calls that completed without error, the entries
\* under the institution's Redis key and the entry rows of the institution
\* in PostgreSQL are the same.
C6_RedisEqualsPostgres ==
    ~had_error =>
        \A institution \in DMInstitutions :
            RedisEntries(institution) = PostgresEntries(institution)

(***************************************************************************)
(* RedisManager and PostgresManager (src/redis_manager.py,                 *)
(* src/postgres_manager.py).                                               *)
(***************************************************************************)
\* the institutions the pages pass to the RedisManager
RMInstitutions == {"UAB", "MBPCC"}

\* the evaluation_scores dictionaries: event number -> score
ScoreDicts == UNION {[E -> Scores] : E \in SUBSET {"1"}}

Hash(cs, ct, te) ==
    [cumulative_summary |-> cs, cumulative_tag |-> ct,
     total_evaluations |-> te]

\* RedisManager.get_selected_entries: the list under the key, [] when the
\* key is absent
RM_get_selected_entries(institution) ==
    IF redis_client.selected_entries[institution] = NoRow THEN << >>
    ELSE redis_client.selected_entries[institution].json

\* RedisManager.get_evaluation_scores: the dictionary under the key, {} when
\* the key is absent
RM_get_evaluation_scores(institution) ==
    IF redis_client.evaluation_scores[institution] = NoRow THEN << >>
    ELSE redis_client.evaluation_scores[institution].json

\* PostgresManager.get_institution_stats: the row of the institution, zeros
\* when there is none
PM_get_institution_stats(institution) ==
    LET rows == {r \in institution_stats : r.institution = institution}
    IN  IF rows = {} THEN {Hash(0, 0, 0)}
        ELSE {Hash(r.cumulative_summary, r.cumulative_tag,
                   r.total_evaluations) : r \in rows}

\* RedisManager.get_institution_stats: the hash of the institution, and the
\* PostgreSQL row when Redis has no hash
RM_get_institution_stats(institution) ==
    IF redis_client.stats[institution] # NoRow
    THEN {redis_client.stats[institution]}
    ELSE PM_get_institution_stats(institution)

\* PostgresManager.update_institution_stats: upsert of the absolute values
\* on the primary key institution
PM_update_institution_stats(tbl, institution, cs, ct, te) ==
    {r \in tbl : r.institution # institution}
    \cup {InstitutionStats(institution, cs, ct, te)}

CallersIdle == \A c \in Callers : caller[c].pc = "idle"

\* the watchers of the stats key of an institution see it modified
Touch(callers, institution, by) ==
    [c \in Callers |->
        IF c # by /\ callers[c].watching
                  /\ callers[c].institution = institution
        THEN [callers[c] EXCEPT !.dirty = TRUE]
        ELSE callers[c]]

\* RedisManager.save_selected_entries: the list is set in Redis and upserted
\* into the table selected_entries
RM_save_selected_entries(institution, selected) ==
    /\ redis_client' = [redis_client EXCEPT
           !.selected_entries[institution] = [json |-> selected]]
    /\ postgres_manager' = [postgres_manager EXCEPT
           !.selected_entries[institution] = [json |-> selected]]
    /\ result' = [op |-> "RedisManager.save_selected_entries", ok |-> TRUE,
                  institution |-> institution]
    /\ n_ops' = n_ops + 1
    /\ UNCHANGED <<tables, pc, session, pages, history, caller, expected_stats>>

\* RedisManager.save_evaluation_scores
RM_save_evaluation_scores(institution, evaluation_scores) ==
    /\ redis_client' = [redis_client EXCEPT
           !.evaluation_scores[institution] = [json |-> evaluation_scores]]
    /\ postgres_manager' = [postgres_manager EXCEPT
           !.evaluation_scores[institution] = [json |-> evaluation_scores]]
    /\ result' = [op |-> "RedisManager.save_evaluation_scores", ok |-> TRUE,
                  institution |-> institution]
    /\ n_ops' = n_ops + 1
    /\ UNCHANGED <<tables, pc, session, pages, history, caller, expected_stats>>

\* RedisManager.reset_data: the two keys are deleted, then
\* PostgresManager.reset_institution_data deletes the rows of the institution
\* from selected_entries, evaluation_scores and institution_stats; the hash
\* <institution>_stats is left
RM_reset_data(institution) ==
    /\ redis_client' = [redis_client EXCEPT
           !.selected_entries[institution] = NoRow,
           !.evaluation_scores[institution] = NoRow]
    /\ postgres_manager' = [postgres_manager EXCEPT
           !.selected_entries[institution] = NoRow,
           !.evaluation_scores[institution] = NoRow]
    /\ institution_stats' =
           {r \in institution_stats : r.institution # institution}
    /\ result' = [op |-> "RedisManager.reset_data", ok |-> TRUE,
                  institution |-> institution]
    /\ n_ops' = n_ops + 1
    /\ UNCHANGED <<entries, evaluations, pc, session, pages, history, caller,
                   expected_stats>>

\* the Redis server comes up without its keys (a restart without a dump, a
\* new server): every key is absent, watched keys count as modified
redis_restart ==
    /\ redis_client # [selected_entries |-> NoKeys,
                       evaluation_scores |-> NoKeys, stats |-> NoKeys,
                       snapshot |-> NoKeys]
    /\ redis_client' = [selected_entries |-> NoKeys,
                        evaluation_scores |-> NoKeys, stats |-> NoKeys,
                       snapshot |-> NoKeys]
    /\ caller' = [c \in Callers |->
                     IF caller[c].watching
                     THEN [caller[c] EXCEPT !.dirty = TRUE] ELSE caller[c]]
    /\ result' = [op |-> "redis_restart", ok |-> TRUE]
    /\ n_ops' = n_ops + 1
    /\ UNCHANGED <<tables, pc, session, pages, history, postgres_manager,
                   expected_stats>>

\* the arguments of a call of update_institution_stats: a new evaluation
\* comes with the default old scores 0, a changed one with the old scores
StatsArgs ==
    {[institution |-> i, summary_score |-> s, tag_score |-> MaxScore,
      is_new_evaluation |-> new, old_summary_score |-> os,
      old_tag_score |-> ot] :
        i \in RMInstitutions, s \in Scores, new \in BOOLEAN,
        os \in 0..MaxScore, ot \in 0..1}

DefaultOrOld(a) ==
    IF a.is_new_evaluation
    THEN a.old_summary_score = 0 /\ a.old_tag_score = 0
    ELSE a.old_summary_score > 0 /\ a.old_tag_score > 0

\* the totals that the calls made so far add up to
Expected(before, a) ==
    LET b == IF before = NoRow THEN Hash(0, 0, 0) ELSE before
    IN  Hash(b.cumulative_summary + (a.summary_score - a.old_summary_score),
             b.cumulative_tag + (a.tag_score - a.old_tag_score),
             b.total_evaluations + (IF a.is_new_evaluation THEN 1 ELSE 0))

\* a call of RedisManager.update_institution_stats begins
RM_update_institution_stats(c, a) ==
    /\ caller[c].pc = "idle"
    /\ DefaultOrOld(a)
    /\ caller' = [caller EXCEPT ![c] =
           [IdleCaller EXCEPT !.pc = "watch",
                              !.institution = a.institution,
                              !.summary_score = a.summary_score,
                              !.tag_score = a.tag_score,
                              !.is_new_evaluation = a.is_new_evaluation,
                              !.old_summary_score = a.old_summary_score,
                              !.old_tag_score = a.old_tag_score]]
    /\ expected_stats' = [expected_stats EXCEPT
           ![a.institution] = Expected(@, a)]
    /\ n_ops' = n_ops + 1
    /\ UNCHANGED <<tables, pc, session, pages, result, redis_client,
                   postgres_manager, had_error, applied, last_saved,
                   last_written>>

\* pipe.watch(stats_key)
RM_watch(c) ==
    /\ caller[c].pc = "watch"
    /\ caller' = [caller EXCEPT ![c].pc = "hgetall",
                                ![c].watching = TRUE,
                                ![c].dirty = FALSE]
    /\ UNCHANGED <<tables, pc, session, pages, result, n_ops, redis_client,
                   postgres_manager, expected_stats, history>>

\* existing_stats = pipe.hgetall(stats_key), and the adjusted totals
RM_hgetall(c) ==
    /\ caller[c].pc = "hgetall"
    /\ LET me == caller[c]
           existing_stats == redis_client.stats[me.institution]
           old == IF existing_stats # NoRow THEN existing_stats
                  ELSE Hash(0, 0, 0)
       IN  caller' = [caller EXCEPT
               ![c].pc = "execute",
               ![c].cumulative_summary =
                   old.cumulative_summary - me.old_summary_score
                   + me.summary_score,
               ![c].cumulative_tag =
                   old.cumulative_tag - me.old_tag_score + me.tag_score,
               ![c].total_evaluations =
                   IF me.is_new_evaluation THEN old.total_evaluations + 1
                   ELSE old.total_evaluations]
    /\ UNCHANGED <<tables, pc, session, pages, result, n_ops, redis_client,
                   postgres_manager, expected_stats, history>>

\* EXEC without a WATCH: the transaction is never aborted
NoWatchError(c) == FALSE

\* an EXEC that is aborted every time
AlwaysWatchError(c) == TRUE

\* redis.WatchError: the watched key was modified after the WATCH
WatchError(c) == caller[c].dirty

\* pipe.multi(); pipe.hmset(stats_key, ...); pipe.execute(): the hash is
\* written unless the watched key was modified, and then the loop starts over
RM_execute(c) ==
    /\ caller[c].pc = "execute"
    /\ LET me == caller[c]
       IN  IF WatchError(c)
           THEN /\ caller' = [caller EXCEPT ![c].pc = "watch",
                                            ![c].watching = FALSE,
                                            ![c].dirty = FALSE,
                                            ![c].retries = 1]
                /\ UNCHANGED redis_client
           ELSE /\ redis_client' = [redis_client EXCEPT
                       !.stats[me.institution] =
                           Hash(me.cumulative_summary, me.cumulative_tag,
                                me.total_evaluations)]
                /\ caller' = [Touch(caller, me.institution, c) EXCEPT
                                 ![c].pc = "postgres",
                                 ![c].watching = FALSE]
    /\ UNCHANGED <<tables, pc, session, pages, result, n_ops, postgres_manager,
                   expected_stats, history>>

\* self.postgres_manager.update_institution_stats(institution, ...), after
\* the loop
RM_postgres(c) ==
    /\ caller[c].pc = "postgres"
    /\ LET me == caller[c]
       IN  institution_stats' =
               PM_update_institution_stats(
                   institution_stats, me.institution, me.cumulative_summary,
                   me.cumulative_tag, me.total_evaluations)
    /\ caller' = [caller EXCEPT ![c].pc = "idle"]
    /\ result' = [op |-> "RedisManager.update_institution_stats",
                  ok |-> TRUE, institution |-> caller[c].institution]
    /\ UNCHANGED <<entries, evaluations, pc, session, pages, n_ops, redis_client,
                   postgres_manager, expected_stats, history>>

RM_step(c) == RM_watch(c) \/ RM_hgetall(c) \/ RM_execute(c) \/ RM_postgres(c)

\* the state after earlier calls: Redis holds a stats hash for UAB or none,
\* the PostgreSQL row agrees with it
InitStats ==
    /\ entries = EmptyBag
    /\ evaluations = EmptyBag
    /\ pc = [s \in Sessions |-> "idle"]
    /\ session = [s \in Sessions |-> IdleLocals("aalexandrian", 0)]
    /\ result = [op |-> "", ok |-> TRUE]
    /\ n_ops = 0
    /\ had_error = FALSE
    /\ applied = [i \in InstNames |-> ZeroTotals]
    /\ last_saved = {}
    /\ last_written = {}
    /\ InitPages
    /\ postgres_manager = [selected_entries |-> NoKeys,
                           evaluation_scores |-> NoKeys,
                           snapshots |-> NoKeys]
    /\ caller = [c \in Callers |-> IdleCaller]
    /\ \E h \in {NoRow, Hash(MaxScore, MaxScore, 1)} :
          /\ redis_client = [selected_entries |-> NoKeys,
                             evaluation_scores |-> NoKeys,
                             stats |-> [NoKeys EXCEPT !["UAB"] = h],
                             snapshot |-> NoKeys]
          /\ expected_stats = [NoKeys EXCEPT !["UAB"] = h]
          /\ institution_stats =
                 IF h = NoRow THEN {}
                 ELSE {InstitutionStats("UAB", MaxScore, MaxScore, 1)}

NextStats ==
    \/ /\ n_ops < MaxCalls
       /\ \E c \in Callers, a \in StatsArgs : RM_update_institution_stats(c, a)
    \/ \E c \in Callers : RM_step(c)

\* concurrent calls of RedisManager.update_institution_stats
SpecStats == InitStats /\ [][NextStats]_vars

\* C8: once all concurrent calls of RedisManager.update_institution_stats
\* have completed, the Redis stats hash of each institution holds the initial
\* totals plus the sum over the calls of (summary_score - old_summary_score)
\* and (tag_score - old_tag_score), and total_evaluations has grown by the
\* number of calls made with is_new_evaluation = True.
C8_RedisStatsAtomic ==
    CallersIdle =>
        \A i \in RMInstitutions : redis_client.stats[i] = expected_stats[i]

\* two calls on UAB have completed, one of them after a WatchError and a
\* second round of its loop
C8_Witness ==
    /\ CallersIdle
    /\ n_ops = 2
    /\ \A c \in Callers : caller[c].institution = "UAB"
    /\ \E c \in Callers : caller[c].retries = 1
    /\ redis_client.stats["UAB"].total_evaluations = 2

NextRedis ==
    \/ /\ n_ops < MaxRedisOps
       /\ \/ \E i \in RMInstitutions :
                \/ \E selected \in SeqsUpTo(EntryDicts, 1) :
                      RM_save_selected_entries(i, selected)
                \/ \E scores \in ScoreDicts :
                      RM_save_evaluation_scores(i, scores)
                \/ RM_reset_data(i)
          \/ redis_restart
          \/ \E a \in StatsArgs :
                a.is_new_evaluation /\ RM_update_institution_stats("c1", a)
    \/ RM_step("c1")

\* the RedisManager calls, one at a time, and the loss of the Redis keys
SpecRedis == InitStats /\ [][NextRedis]_vars

\* what PostgreSQL holds for the institution
PM_selected_entries(institution) ==
    IF postgres_manager.selected_entries[institution] = NoRow THEN << >>
    ELSE postgres_manager.selected_entries[institution].json

PM_evaluation_scores(institution) ==
    IF postgres_manager.evaluation_scores[institution] = NoRow THEN << >>
    ELSE postgres_manager.evaluation_scores[institution].json

\* C7: whenever a key of the institution is absent in Redis,
\* RedisManager.get_selected_entries, get_evaluation_scores and
\* get_institution_stats return what PostgreSQL holds for the institution.
C7_FallBackOnMiss ==
    \A i \in RMInstitutions :
        /\ redis_client.selected_entries[i] = NoRow
              => RM_get_selected_entries(i) = PM_selected_entries(i)
        /\ redis_client.evaluation_scores[i] = NoRow
              => RM_get_evaluation_scores(i) = PM_evaluation_scores(i)
        /\ redis_client.stats[i] = NoRow
              => RM_get_institution_stats(i) = PM_get_institution_stats(i)

(***************************************************************************)
(* AdminPage (src/app/pages/admin_page.py): upload and selection controls. *)
(* An Entry object of the session is a row (institution, event_number,     *)
(* data); its attribute selected always equals data['Selected'] here       *)
(* (get_entries, the upload and update_selection_status set both).         *)
(***************************************************************************)
\* the status that "Select All", "Select Random" and a ticked checkbox pass
Selected == "Selected"

\* what the AdminPage handlers leave alone
outside_admin == <<evaluations, institution_stats, pc, session, cache, auth,
                   config, had_error, applied, last_saved>>

\* Entry.update_selection_status
update_selection_status(entry, status) ==
    [entry EXCEPT !.data.Selected = status]

\* AdminPage._render_content: the entries of the institution are loaded into
\* the session when it has no all_entries
Admin_load(institution) ==
    /\ ~admin.has_all_entries
    /\ \E all_entries \in Orders(get_entries(entries, institution, FALSE)) :
          admin' = [has_all_entries |-> TRUE, all_entries |-> all_entries,
                    total_entries |-> Len(all_entries)]
    /\ result' = [op |-> "AdminPage.load", ok |-> TRUE,
                  institution |-> institution]
    /\ n_ops' = n_ops + 1
    /\ UNCHANGED <<entries, last_written>>
    /\ UNCHANGED outside_admin

\* AdminPage._reset_session_state (the institution selectbox changes)
Admin_reset_session_state ==
    /\ admin.has_all_entries
    /\ admin' = [has_all_entries |-> FALSE, all_entries |-> << >>,
                 total_entries |-> 0]
    /\ result' = [op |-> "AdminPage.reset_session_state", ok |-> TRUE]
    /\ n_ops' = n_ops + 1
    /\ UNCHANGED <<entries, last_written>>
    /\ UNCHANGED outside_admin

\* the values that save_entries writes for a list of Entry objects
EntriesValues(batch) ==
    [i \in 1..Len(batch) |->
        EntryRow(lower(batch[i].institution), batch[i].event_number,
                 batch[i].data)]

\* AdminPage._update_selection_status(status, event_numbers): the session's
\* entries with these event numbers get the status and are saved
selection_update(all_entries, status, event_numbers) ==
    [i \in 1..Len(all_entries) |->
        IF all_entries[i].event_number \in event_numbers
        THEN update_selection_status(all_entries[i], status)
        ELSE all_entries[i]]

updated_entries(all_entries, status, event_numbers) ==
    SelectSeq(selection_update(all_entries, status, event_numbers),
              LAMBDA e : e.event_number \in event_numbers)

\* "Select All" (status 'Selected') and "Deselect All" ('Do Not Select')
Admin_update_selection_status(status) ==
    /\ admin.has_all_entries /\ admin.total_entries > 0
    /\ LET batch == updated_entries(admin.all_entries, status, EventNumbers)
           done == execute_values(entries, EntriesValues(batch), << >>)
       IN  /\ admin' = [admin EXCEPT !.all_entries =
                  selection_update(@, status, EventNumbers)]
           /\ entries' = done.table
           /\ last_written' = Written(last_written, done.written)
           /\ result' = [op |-> "AdminPage.update_selection_status",
                         ok |-> done.ok, status |-> status]
    /\ n_ops' = n_ops + 1
    /\ UNCHANGED outside_admin

\* a checkbox of the entries table changes: the first entry of the session
\* with the event number gets 'Selected' or 'Do Not Select' and is saved
Admin_update_entry_selection(event_number) ==
    /\ admin.has_all_entries /\ admin.total_entries > 0
    /\ \E i \in 1..Len(admin.all_entries) :
          /\ admin.all_entries[i].event_number = event_number
          /\ \A j \in 1..(i - 1) :
                admin.all_entries[j].event_number # event_number
          /\ LET is_selected ==
                     \E k \in 1..Len(admin.all_entries) :
                        /\ admin.all_entries[k].event_number = event_number
                        /\ admin.all_entries[k].data.Selected = Selected
                 new_status == IF is_selected THEN DoNotSelect ELSE Selected
                 entry == update_selection_status(admin.all_entries[i],
                                                  new_status)
                 row == EntryRow(lower(entry.institution),
                                 entry.event_number, entry.data)
             IN  /\ admin' = [admin EXCEPT !.all_entries[i] = entry]
                 /\ entries' = upsert_entry(entries, row)
                 /\ last_written' = Written(last_written, <<row>>)
                 /\ result' = [op |-> "AdminPage.update_entry_selection",
                               ok |-> TRUE, status |-> new_status]
    /\ n_ops' = n_ops + 1
    /\ UNCHANGED outside_admin

\* the event numbers of the samples random.sample(entries, count) can draw
Samples(all_entries, count) ==
    {{all_entries[i].event_number : i \in I} :
        I \in {J \in SUBSET (1..Len(all_entries)) : Cardinality(J) = count}}

\* "Select Random": all entries are reset to 'Do Not Select' and saved, and
\* st.rerun() ends the run there; only when that save fails does the handler
\* go on to draw the sample and give its entries the status 'Selected'
Admin_select_random_entries(count) ==
    /\ admin.has_all_entries /\ admin.total_entries > 0
    /\ LET reset == selection_update(admin.all_entries, DoNotSelect,
                                     EventNumbers)
           first == execute_values(entries, EntriesValues(reset), << >>)
           n == IF count < Len(reset) THEN count ELSE Len(reset)
       IN  IF first.ok
           THEN /\ admin' = [admin EXCEPT !.all_entries = reset]
                /\ entries' = first.table
                /\ last_written' = Written(last_written, first.written)
                /\ result' = [op |-> "AdminPage.select_random_entries",
                              ok |-> TRUE, status |-> DoNotSelect]
           ELSE \E event_numbers \in Samples(reset, n) :
                   LET batch == updated_entries(reset, Selected,
                                                event_numbers)
                       second == execute_values(entries,
                                                EntriesValues(batch), << >>)
                   IN  /\ admin' = [admin EXCEPT !.all_entries =
                              selection_update(reset, Selected,
                                               event_numbers)]
                       /\ entries' = second.table
                       /\ last_written' =
                              Written(last_written, second.written)
                       /\ result' =
                              [op |-> "AdminPage.select_random_entries",
                               ok |-> second.ok, status |-> Selected]
    /\ n_ops' = n_ops + 1
    /\ UNCHANGED outside_admin

\* "Confirm Upload": one Entry per row of the file, with 'Selected' set to
\* 'Do Not Select', saved in one batch; then the session's entries are
\* loaded again
Admin_confirm_upload(institution, event_numbers) ==
    /\ LET batch == [i \in 1..Len(event_numbers) |->
                       EntryRow(lower(strip(institution)), event_numbers[i],
                                EntryData(event_numbers[i], DoNotSelect,
                                          "a"))]
           done == IF batch = << >>
                   THEN [ok |-> TRUE, table |-> entries, written |-> << >>]
                   ELSE execute_values(entries, EntriesValues(batch), << >>)
       IN  /\ entries' = done.table
           /\ last_written' = Written(last_written, done.written)
           /\ IF done.ok
              THEN \E all_entries \in
                          Orders(get_entries(done.table, institution, FALSE)) :
                      admin' = [has_all_entries |-> TRUE,
                                all_entries |-> all_entries,
                                total_entries |-> Len(all_entries)]
              ELSE UNCHANGED admin
           /\ result' = [op |-> "AdminPage.confirm_upload", ok |-> done.ok,
                         institution |-> institution]
    /\ n_ops' = n_ops + 1
    /\ UNCHANGED outside_admin

NextAdmin ==
    /\ n_ops < MaxAdminOps
    /\ \/ \E institution \in DMInstitutions : Admin_load(institution)
       \/ Admin_reset_session_state
       \/ \E institution \in DMInstitutions :
             \E event_numbers \in SeqsUpTo(EventNumbers, MaxBatch) :
                Admin_confirm_upload(institution, event_numbers)
       \/ \E status \in {Selected, DoNotSelect} :
             Admin_update_selection_status(status)
       \/ \E event_number \in EventNumbers :
             Admin_update_entry_selection(event_number)
       \/ \E count \in 1..MaxBatch : Admin_select_random_entries(count)

\* the admin uploads entries and uses the selection controls
SpecAdmin == InitService /\ [][NextAdmin]_vars

\* C11: the 'Selected' field of every stored entry is 'Do Not Select' or
\* 'Select for Evaluation'.
C11_SelectionFlagValues ==
    \A r \in BagToSet(entries) :
        r.data.Selected \in {DoNotSelect, SelectForEvaluation}

(***************************************************************************)
(* AuthService, SecurePage and the navigation of main                      *)
(* (src/app/services/auth_service.py, src/app/pages/__init__.py,           *)
(* src/app/main_unified.py).  st.session_state is a function from the keys *)
(* it holds to their values; Python None is the string "None".             *)
(***************************************************************************)
\* the session timeout, in units of the model's clock (900 s in the code)
session_timeout == 2

\* dictionary operations
Has(d, k) == k \in DOMAIN d
Get(d, k, default) == IF k \in DOMAIN d THEN d[k] ELSE default
Set(d, k, v) == [x \in DOMAIN d \cup {k} |-> IF x = k THEN v ELSE d[x]]
Pop(d, k) == [x \in DOMAIN d \ {k} |-> d[x]]

\* truth value of a string or None
Truthy(v) == v \notin {"", "None"}

admin_credentials == [u \in {"iroils"} |-> "iROILS"]

evaluator_password ==
    [u \in Evaluators |->
        CASE u = "aalexandrian" -> "1232"
          [] u = "nviscariello" -> "L8kY5nJ3"
          [] u = "astam" -> "A3nR6yP7"]

\* what is typed into a login form
Usernames == {"iroils", "aalexandrian", "astam", "mallory"}
Passwords == {"iROILS", "1232", "A3nR6yP7", ""}

\* AuthService.authenticate_admin
authenticate_admin(username, password) ==
    /\ username \in DOMAIN admin_credentials
    /\ admin_credentials[username] = password

\* authenticate_evaluator that does not compare the password
authenticate_evaluator_any(username, password) ==
    IF username \in Evaluators
    THEN evaluator_credentials[username] ELSE "None"

\* AuthService.authenticate_evaluator: the institution, or None
authenticate_evaluator(username, password) ==
    IF username \in Evaluators /\ evaluator_password[username] = password
    THEN evaluator_credentials[username] ELSE "None"

AdminUser(username) == [role |-> "admin", username |-> username]
EvaluatorUser(username, institution) ==
    [role |-> "evaluator", username |-> username,
     institution |-> institution]

\* _update_session_state that leaves out evaluator_institution
update_session_state_short(ss, user, now) ==
    LET common == Set(Set(Set(Set(ss, "logged_in", TRUE),
                              "user_role", user.role),
                          "username", user.username),
                      "last_activity", now)
    IN  IF user.role = "evaluator"
        THEN Set(Set(common, "evaluator_logged_in", TRUE),
                 "evaluator_username", user.username)
        ELSE common

\* AuthService._update_session_state
update_session_state(ss, user, now) ==
    LET common == Set(Set(Set(Set(ss, "logged_in", TRUE),
                              "user_role", user.role),
                          "username", user.username),
                      "last_activity", now)
    IN  IF user.role = "evaluator"
        THEN Set(Set(Set(common, "evaluator_logged_in", TRUE),
                     "evaluator_username", user.username),
                 "evaluator_institution", user.institution)
        ELSE common

\* AuthService.login: the user and the session state, or
\* InvalidCredentialsError
login(ss, username, password, now) ==
    IF authenticate_admin(username, password)
    THEN [ok |-> TRUE, user |-> AdminUser(username),
          session_state |->
              update_session_state(ss, AdminUser(username), now)]
    ELSE LET institution == authenticate_evaluator(username, password)
         IN  IF Truthy(institution)
             THEN [ok |-> TRUE,
                   user |-> EvaluatorUser(username, institution),
                   session_state |->
                       update_session_state(
                           ss, EvaluatorUser(username, institution), now)]
             ELSE [ok |-> FALSE, user |-> NoRow, session_state |-> ss]

AuthKeys ==
    {"logged_in", "user_role", "username", "last_activity",
     "evaluator_logged_in", "evaluator_username", "evaluator_institution"}

\* a logout that keeps the user's name and role
logout_flag_only(ss) ==
    [x \in DOMAIN ss \ {"logged_in", "last_activity"} |-> ss[x]]

\* AuthService.logout
logout(ss) == [x \in DOMAIN ss \ AuthKeys |-> ss[x]]

\* elapsed_time >= self.session_timeout
timed_out_at(ss, now) ==
    /\ Has(ss, "last_activity")
    /\ now - ss["last_activity"] >= session_timeout

\* 'last_activity' in session_state and elapsed_time > self.session_timeout
timed_out(ss, now) ==
    /\ Has(ss, "last_activity")
    /\ now - ss["last_activity"] > session_timeout

\* AuthService.check_session_timeout
check_session_timeout(ss, now) ==
    IF timed_out(ss, now)
    THEN [returned |-> TRUE, session_state |-> logout(ss)]
    ELSE [returned |-> FALSE,
          session_state |-> IF Has(ss, "last_activity")
                            THEN Set(ss, "last_activity", now) ELSE ss]

\* AuthService.get_current_user
get_current_user(ss, now) ==
    IF ~Get(ss, "logged_in", FALSE)
    THEN [user |-> NoRow, session_state |-> ss]
    ELSE LET checked == check_session_timeout(ss, now)
             after == checked.session_state
             role == Get(after, "user_role", "None")
             username == Get(after, "username", "None")
             institution == Get(after, "evaluator_institution", "None")
         IN  [session_state |-> after,
              user |->
                  IF checked.returned \/ ~Truthy(role) \/ ~Truthy(username)
                  THEN NoRow
                  ELSE IF role = "admin" THEN AdminUser(username)
                  ELSE IF role = "evaluator" /\ Truthy(institution)
                  THEN EvaluatorUser(username, institution)
                  ELSE NoRow]

\* what the steps of this section leave alone
outside_auth == <<tables, pc, session, n_ops, cache, admin, config,
                  history>>

\* time passes
Auth_tick ==
    /\ auth.now < MaxTime
    /\ auth' = [auth EXCEPT !.now = @ + 1]
    /\ result' = [op |-> "tick", ok |-> TRUE]
    /\ UNCHANGED outside_auth

\* AuthService.login(st.session_state, username, password)
Auth_login(username, password) ==
    /\ LET done == login(auth.session_state, username, password, auth.now)
       IN  /\ auth' = [auth EXCEPT
                  !.session_state = done.session_state,
                  !.logged_out = IF done.ok THEN FALSE ELSE @]
           /\ result' = [op |-> "AuthService.login", ok |-> done.ok,
                         raised |-> IF done.ok THEN "None"
                                    ELSE "InvalidCredentialsError",
                         user |-> done.user, username |-> username,
                         password |-> password]
    /\ UNCHANGED outside_auth

\* AuthService.logout(st.session_state)
Auth_logout ==
    /\ auth' = [auth EXCEPT !.session_state = logout(@),
                            !.logged_out = TRUE]
    /\ result' = [op |-> "AuthService.logout", ok |-> TRUE]
    /\ UNCHANGED outside_auth

\* AuthService.check_session_timeout(st.session_state)
Auth_check_session_timeout ==
    /\ LET done == check_session_timeout(auth.session_state, auth.now)
       IN  /\ auth' = [auth EXCEPT
                  !.session_state = done.session_state,
                  !.logged_out = IF done.returned THEN TRUE ELSE @]
           /\ result' = [op |-> "AuthService.check_session_timeout",
                         ok |-> TRUE, returned |-> done.returned]
    /\ UNCHANGED outside_auth

\* AuthService.get_current_user(st.session_state) and
\* AuthService.require_login(st.session_state), which raises
\* UnauthorizedAccessError when there is no user
Auth_get_current_user(op) ==
    /\ LET done == get_current_user(auth.session_state, auth.now)
       IN  /\ auth' = [auth EXCEPT
                  !.session_state = done.session_state,
                  !.logged_out =
                      IF timed_out(auth.session_state, auth.now)
                         /\ Get(auth.session_state, "logged_in", FALSE)
                      THEN TRUE ELSE @]
           /\ result' = [op |-> op,
                         ok |-> (op = "AuthService.get_current_user"
                                 \/ done.user # NoRow),
                         raised |->
                             IF op = "AuthService.require_login"
                                /\ done.user = NoRow
                             THEN "UnauthorizedAccessError" ELSE "None",
                         user |-> done.user]
    /\ UNCHANGED outside_auth

\* what can be clicked in one run of a page
Clicks ==
    {[button |-> "none"], [button |-> "Logout"]}
        \cup [button : {"Login"}, username : Usernames,
              password : Passwords]

\* the writes of a login form (SecurePage._render_login_form and the
\* sidebar of main); a rejected pair writes nothing
login_form(ss, click, now) ==
    IF click.button # "Login" THEN ss
    ELSE IF authenticate_admin(click.username, click.password)
    THEN Set(Set(Set(Set(ss, "logged_in", TRUE),
                     "username", click.username),
                 "user_role", "admin"),
             "last_activity", now)
    ELSE LET institution ==
                 authenticate_evaluator(click.username, click.password)
         IN  IF Truthy(institution)
             THEN Set(Set(Set(Set(Set(Set(Set(Set(ss,
                      "logged_in", TRUE),
                      "username", click.username),
                      "user_role", "evaluator"),
                      "last_activity", now),
                      "evaluator_logged_in", TRUE),
                      "evaluator_username", click.username),
                      "evaluator_institution", institution),
                      "institution", institution)
             ELSE ss

\* whether a login form click logs somebody in
login_accepted(click) ==
    /\ click.button = "Login"
    /\ \/ authenticate_admin(click.username, click.password)
       \/ Truthy(authenticate_evaluator(click.username, click.password))

\* a role check that lets every role through
role_denied_never(required_role, user_role) == FALSE

\* self.required_role and user_role != self.required_role
role_denied(required_role, user_role) ==
    Truthy(required_role) /\ user_role # required_role

\* SecurePage.render: what is rendered and the session state afterwards
SecurePage_render(ss, now, required_role, click) ==
    IF ~Get(ss, "logged_in", FALSE)
    THEN [rendered |-> "login_form",
          session_state |-> login_form(ss, click, now)]
    ELSE LET checked == check_session_timeout(ss, now)
             after == checked.session_state
         IN  IF checked.returned
             THEN [rendered |-> "login_form",
                   session_state |-> login_form(after, click, now)]
             ELSE [rendered |->
                       IF role_denied(required_role,
                                      Get(after, "user_role", "None"))
                       THEN "access_denied" ELSE "content",
                   session_state |->
                       IF click.button = "Logout"
                       THEN logout(after) ELSE after]

\* the secure pages: the role given to SecurePage.__init__ and the
\* required_role the object has when it is rendered
SecurePages ==
    {[page |-> "AdminPage", constructed_role |-> "admin",
      required_role |-> "admin"],
     [page |-> "DashboardPage", constructed_role |-> "admin",
      required_role |-> "admin"],
     [page |-> "SubmissionPage", constructed_role |-> "evaluator",
      required_role |-> "evaluator"],
     [page |-> "AdminSubmissionPage", constructed_role |-> "evaluator",
      required_role |-> "None"]}

PageNamed(name) == CHOOSE p \in SecurePages : p.page = name

\* one run that renders a secure page
render_page(ss, p, click) ==
    LET done == SecurePage_render(ss, auth.now, p.required_role, click)
        rendered_form == done.rendered = "login_form"
    IN  /\ auth' = [auth EXCEPT
               !.session_state = done.session_state,
               !.logged_out =
                   IF rendered_form /\ login_accepted(click) THEN FALSE
                   ELSE IF Get(ss, "logged_in", FALSE)
                           /\ (timed_out(ss, auth.now)
                               \/ click.button = "Logout")
                   THEN TRUE ELSE @]
        /\ result' = [op |-> "SecurePage.render", ok |-> TRUE,
                      page |-> p.page,
                      constructed_role |-> p.constructed_role,
                      required_role |-> p.required_role,
                      rendered |-> done.rendered]

\* app/main.py: run_admin_page, run_submission_page, run_dashboard_page
Page_run(name, click) ==
    /\ name \in {"AdminPage", "SubmissionPage", "DashboardPage"}
    /\ render_page(auth.session_state, PageNamed(name), click)
    /\ UNCHANGED outside_auth

\* main_unified.py, module level: the keys a run finds missing get
\* their defaults
main_defaults(ss, now) ==
    [x \in DOMAIN ss \cup AuthKeys \cup {"institution"} |->
        IF x \in DOMAIN ss THEN ss[x]
        ELSE IF x \in {"logged_in", "evaluator_logged_in"} THEN FALSE
        ELSE IF x = "last_activity" THEN now
        ELSE "None"]

\* main_unified.py: a run with the sidebar's Login button
Main_login(click) ==
    /\ click.button = "Login"
    /\ LET ss == main_defaults(auth.session_state, auth.now)
           written == login_form(ss, click, auth.now)
       IN  /\ ~Get(ss, "authenticated", FALSE)
           /\ auth' = [auth EXCEPT
                  !.session_state =
                      IF login_accepted(click)
                      THEN Set(written, "authenticated", TRUE) ELSE ss,
                  !.logged_out =
                      IF login_accepted(click) THEN FALSE ELSE @]
           /\ result' = [op |-> "main.login",
                         ok |-> login_accepted(click)]
    /\ UNCHANGED outside_auth

\* main_unified.py: a run with the sidebar's Logout button
Main_logout ==
    /\ LET ss == main_defaults(auth.session_state, auth.now)
       IN  /\ Get(ss, "authenticated", FALSE)
           /\ auth' = [auth EXCEPT !.session_state =
                  [x \in DOMAIN ss |->
                      IF x \in {"authenticated", "logged_in",
                                "evaluator_logged_in"} THEN FALSE
                      ELSE IF x = "last_activity" THEN auth.now
                      ELSE IF x \in {"username", "user_role",
                                     "institution", "evaluator_username",
                                     "evaluator_institution"} THEN "None"
                      ELSE ss[x]]]
           /\ result' = [op |-> "main.logout", ok |-> TRUE]
    /\ UNCHANGED outside_auth

\* the navigation options of a role
page_options(user_role) ==
    IF user_role = "admin"
    THEN {"Overview", "Admin Dashboard", "Data Analysis", "Tag Analysis",
          "User Submission"}
    ELSE {"Overview", "User Submission"}

\* main_unified.py: a run of a logged-in session that renders the page
\* selected in the sidebar
Main_render(selected_page, click) ==
    /\ LET ss == main_defaults(auth.session_state, auth.now)
           user_role == Get(ss, "user_role", "None")
       IN  /\ Get(ss, "authenticated", FALSE)
           /\ selected_page \in page_options(user_role)
           /\ IF selected_page = "Admin Dashboard"
              THEN render_page(ss, PageNamed("AdminPage"), click)
              ELSE IF selected_page = "User Submission"
              THEN render_page(ss,
                       IF user_role = "evaluator"
                       THEN PageNamed("SubmissionPage")
                       ELSE PageNamed("AdminSubmissionPage"), click)
              ELSE /\ click.button = "none"
                   /\ auth' = [auth EXCEPT !.session_state = ss]
                   /\ result' = [op |-> "BasePage.render", ok |-> TRUE,
                                 page |-> selected_page]
    /\ UNCHANGED outside_auth

NextAuth ==
    \/ Auth_tick
    \/ \E username \in Usernames, password \in Passwords :
           Auth_login(username, password)
    \/ Auth_logout
    \/ Auth_check_session_timeout
    \/ \E op \in {"AuthService.get_current_user",
                  "AuthService.require_login"} : Auth_get_current_user(op)
    \/ \E name \in {"AdminPage", "SubmissionPage", "DashboardPage"},
          click \in Clicks : Page_run(name, click)
    \/ \E click \in Clicks : Main_login(click)
    \/ Main_logout
    \/ \E selected_page \in page_options("admin"), click \in Clicks :
           Main_render(selected_page, click)

SpecAuth == InitService /\ [][NextAuth]_vars

\* C12 as stated: a SecurePage constructed with a required role renders
\* its page content only in a run that starts with logged_in true, no
\* session timeout and user_role equal to the role it was constructed with.
C12_ConstructedRoleGates ==
    [][(result'.op = "SecurePage.render" /\ result'.rendered = "content")
       => LET ss == auth.session_state
          IN  /\ Get(ss, "logged_in", FALSE)
              /\ ~(Has(ss, "last_activity")
                   /\ auth.now - ss["last_activity"] > session_timeout)
              /\ Get(ss, "user_role", "None") = result'.constructed_role
      ]_vars

\* C12: a SecurePage renders its page content exactly in a run that starts
\* with logged_in true, no session timeout and, when the page still has a
\* required role at render time, user_role equal to that role; in every
\* other run it renders the login form or the access-denied message.
C12_RenderGates ==
    [][result'.op = "SecurePage.render"
       => LET ss == auth.session_state
              admitted ==
                  /\ Get(ss, "logged_in", FALSE)
                  /\ ~(Has(ss, "last_activity")
                       /\ auth.now - ss["last_activity"] > session_timeout)
                  /\ \/ result'.required_role = "None"
                     \/ Get(ss, "user_role", "None") = result'.required_role
          IN  /\ (result'.rendered = "content") <=> admitted
              /\ ~admitted
                     => result'.rendered \in {"login_form", "access_denied"}
      ]_vars

C12_Witness ==
    /\ result.op = "SecurePage.render"
    /\ result.page = "AdminSubmissionPage"
    /\ result.rendered = "content"
    /\ Get(auth.session_state, "user_role", "None") = "admin"

\* C13: check_session_timeout returns True exactly when last_activity is
\* present and more than session_timeout has elapsed since it, and then the
\* authentication keys are gone from the session; otherwise it returns
\* False, a present last_activity becomes the current time and nothing
\* else changes.
C13_SessionTimeout ==
    [][result'.op = "AuthService.check_session_timeout"
       => LET ss == auth.session_state
              after == auth'.session_state
              expired == /\ "last_activity" \in DOMAIN ss
                         /\ auth.now - ss["last_activity"] > session_timeout
          IN  /\ result'.returned = expired
              /\ expired =>
                     /\ DOMAIN after = DOMAIN ss \ AuthKeys
                     /\ \A k \in DOMAIN after : after[k] = ss[k]
              /\ ~expired =>
                     /\ DOMAIN after = DOMAIN ss
                     /\ \A k \in DOMAIN ss :
                            after[k] = IF k = "last_activity"
                                       THEN auth.now ELSE ss[k]
      ]_vars

C13_Witness ==
    /\ result.op = "AuthService.check_session_timeout"
    /\ result.returned
    /\ auth.now > session_timeout
    /\ "logged_in" \notin DOMAIN auth.session_state

\* C14: after AuthService.logout the session holds none of the
\* authentication keys, and from then until the next successful login
\* get_current_user returns None and require_login raises
\* UnauthorizedAccessError.
C14_LoggedOutUntilLogin ==
    [][/\ result'.op = "AuthService.logout"
           => DOMAIN auth'.session_state \cap AuthKeys = {}
       /\ (auth.logged_out /\ result'.op = "AuthService.get_current_user")
           => result'.user = NoRow
       /\ (auth.logged_out /\ result'.op = "AuthService.require_login")
           => result'.raised = "UnauthorizedAccessError"
      ]_vars

C14_Witness ==
    /\ auth.logged_out
    /\ result.op = "AuthService.require_login"
    /\ result.raised = "UnauthorizedAccessError"
    /\ Has(auth.session_state, "logged_in")

\* C15: a login with a pair that matches neither the admin's nor an
\* evaluator's credentials raises InvalidCredentialsError and leaves the
\* session state as it was.
C15_FailedLoginChangesNothing ==
    [][(/\ result'.op = "AuthService.login"
        /\ <<result'.username, result'.password>> \notin
               {<<"iroils", "iROILS">>, <<"aalexandrian", "1232">>,
                <<"nviscariello", "L8kY5nJ3">>, <<"astam", "A3nR6yP7">>})
       => /\ result'.raised = "InvalidCredentialsError"
          /\ auth'.session_state = auth.session_state
      ]_vars

C15_Witness ==
    /\ result.op = "AuthService.login"
    /\ result.raised = "InvalidCredentialsError"
    /\ result.username = "astam"
    /\ Get(auth.session_state, "logged_in", FALSE)
    /\ Get(auth.session_state, "username", "None") = "iroils"

\* C16: a successful login leaves logged_in, user_role, username and
\* last_activity in the session, for an evaluator also evaluator_logged_in,
\* evaluator_username and the evaluator's configured institution as
\* evaluator_institution, and returns a user with the same role, username
\* and institution.
C16_LoginFillsSession ==
    [][(result'.op = "AuthService.login" /\ result'.ok)
       => LET after == auth'.session_state
              username == result'.username
              user == result'.user
          IN  /\ {"logged_in", "user_role", "username", "last_activity"}
                     \subseteq DOMAIN after
              /\ after["logged_in"] = TRUE
              /\ after["username"] = username
              /\ after["last_activity"] = auth.now
              /\ user.username = username
              /\ user.role = after["user_role"]
              /\ IF username = "iroils"
                 THEN after["user_role"] = "admin"
                 ELSE /\ after["user_role"] = "evaluator"
                      /\ {"evaluator_logged_in", "evaluator_username",
                          "evaluator_institution"} \subseteq DOMAIN after
                      /\ after["evaluator_logged_in"] = TRUE
                      /\ after["evaluator_username"] = username
                      /\ after["evaluator_institution"] =
                             (IF username = "astam" THEN "MBPCC" ELSE "UAB")
                      /\ user.institution = after["evaluator_institution"]
      ]_vars

C16_Witness ==
    /\ result.op = "AuthService.login"
    /\ result.ok
    /\ result.user = [role |-> "evaluator", username |-> "astam",
                      institution |-> "MBPCC"]
    /\ auth.session_state["evaluator_institution"] = "MBPCC"

(***************************************************************************)
(* ConfigManager (src/app/config/config_manager.py).  A configuration is a *)
(* function from section names to functions from option names to strings;  *)
(* config.file is app/config.ini on disk.                                   *)
(***************************************************************************)
\* the file _create_default_config writes
DefaultConfig ==
    [postgresql |-> [psql_home |-> "192.168.1.166",
                     psql_work |-> "172.30.98.x",
                     psql_port |-> "5432",
                     psql_user |-> "aalexandrian",
                     psql_password |-> "1232",
                     psql_dbname |-> "iroils"],
     API |-> [endpoint_home |-> "http://192.168.1.5:11434/api/generate",
              endpoint_work |-> "http://172.30.98.11:11434/api/generate"],
     Redis |-> [host_home |-> "192.168.1.4",
                host_work |-> "172.30.98.46",
                redis_port |-> "6379"]]

\* other files an installation can have: one environment on another port,
\* and a file without a port
ConfigFiles ==
    {DefaultConfig,
     [postgresql |-> [psql_home |-> "localhost",
                      psql_port |-> "5433",
                      psql_user |-> "user",
                      psql_password |-> "password",
                      psql_dbname |-> "dbname"],
      section1 |-> [key1 |-> "value1", key2 |-> "value2"]],
     [postgresql |-> [psql_home |-> "localhost",
                      psql_work |-> "workserver",
                      psql_user |-> "user",
                      psql_password |-> "password",
                      psql_dbname |-> "dbname"]]}

\* a file configparser cannot parse
Malformed == [malformed |-> TRUE]

\* configparser.ConfigParser()
EmptyConfig == << >>

Environments == {"home", "work", "invalid", "HOME"}

\* f'psql_{environment}'
psql_key(environment) ==
    CASE environment = "home" -> "psql_home"
      [] environment = "work" -> "psql_work"
      [] environment = "invalid" -> "psql_invalid"
      [] environment = "HOME" -> "psql_HOME"

\* ConfigParser.optionxform: option names are looked up in lower case
optionxform(key) == IF key = "psql_HOME" THEN "psql_home" ELSE key

\* int(value), as SectionProxy.getint converts
int(value) ==
    CASE value = "5432" -> 5432
      [] value = "5433" -> 5433
      [] value = "6379" -> 6379

\* a constructor that never finds the object initialized
initialized_never(instance) == FALSE

\* if self._initialized
initialized(instance) == instance.initialized

\* what the steps of this section leave alone
outside_config == <<tables, pc, session, n_ops, cache, admin, auth,
                    history>>

\* the loaded configuration of the instance
loaded == config.instance.config.json

\* config.ini is edited, replaced or deleted outside the program
Config_edit_file(file) ==
    /\ file # config.file
    /\ config' = [config EXCEPT !.file = file]
    /\ result' = [op |-> "config.ini", ok |-> TRUE]
    /\ UNCHANGED outside_config

\* ConfigManager(): __new__, then __init__ with _load_config and
\* _create_default_config
Config_construct ==
    /\ LET instance ==
               IF config.instance = NoRow
               THEN [id |-> config.objects + 1, initialized |-> FALSE,
                     config |-> NoRow]
               ELSE config.instance
           objects ==
               IF config.instance = NoRow
               THEN config.objects + 1 ELSE config.objects
       IN  IF initialized(instance)
           THEN /\ config' = [config EXCEPT
                       !.returned = @ \cup {instance.id}]
                /\ result' = [op |-> "ConfigManager", ok |-> TRUE,
                              raised |-> "None", id |-> instance.id]
           ELSE IF config.file = Malformed
           THEN /\ config' = [config EXCEPT
                       !.instance = [instance EXCEPT
                           !.config = [json |-> EmptyConfig]],
                       !.objects = objects]
                /\ result' = [op |-> "ConfigManager", ok |-> FALSE,
                              raised |-> "ParsingError", id |-> 0]
           ELSE LET file == IF config.file = NoRow
                            THEN [json |-> DefaultConfig]
                            ELSE config.file
                IN  /\ config' = [config EXCEPT
                           !.instance = [instance EXCEPT
                               !.config = file, !.initialized = TRUE],
                           !.objects = objects,
                           !.file = file,
                           !.loads = @ + 1,
                           !.returned = @ \cup {instance.id}]
                    /\ result' = [op |-> "ConfigManager", ok |-> TRUE,
                                  raised |-> "None", id |-> instance.id]
    /\ UNCHANGED outside_config

\* ConfigManager.get_postgresql_config
get_postgresql_config(cfg, environment) ==
    IF "postgresql" \notin DOMAIN cfg
    THEN [ok |-> FALSE, raised |-> "KeyError"]
    ELSE LET section == cfg["postgresql"]
             host == optionxform(psql_key(environment))
         IN  IF {host, "psql_user", "psql_password", "psql_dbname"}
                    \subseteq DOMAIN section
             THEN [ok |-> TRUE, raised |-> "None",
                   value |->
                       [host |-> section[host],
                        port |-> IF "psql_port" \in DOMAIN section
                                 THEN int(section["psql_port"]) ELSE 5432,
                        user |-> section["psql_user"],
                        password |-> section["psql_password"],
                        dbname |-> section["psql_dbname"]]]
             ELSE [ok |-> FALSE, raised |-> "KeyError"]

\* config.get_postgresql_config(environment) on the constructed object
Config_get_postgresql_config(environment) ==
    /\ config.instance # NoRow
    /\ config.instance.initialized
    /\ result' = [op |-> "ConfigManager.get_postgresql_config",
                  environment |-> environment]
                 @@ get_postgresql_config(loaded, environment)
    /\ UNCHANGED config
    /\ UNCHANGED outside_config

Sections == {"postgresql", "section1", "missing"}
Keys == {"psql_user", "key1", "nonexistent"}
Fallbacks == {"None", "default"}

\* ConfigManager.get_value
get_value(cfg, section, key, fallback) ==
    IF section \in DOMAIN cfg /\ optionxform(key) \in DOMAIN cfg[section]
    THEN [ok |-> TRUE, raised |-> "None",
          value |-> cfg[section][optionxform(key)]]
    ELSE IF fallback # "None"
    THEN [ok |-> TRUE, raised |-> "None", value |-> fallback]
    ELSE [ok |-> FALSE, raised |-> "KeyError"]

\* config.get_value(section, key, fallback) on the constructed object
Config_get_value(section, key, fallback) ==
    /\ config.instance # NoRow
    /\ config.instance.initialized
    /\ result' = [op |-> "ConfigManager.get_value", section |-> section,
                  key |-> key, fallback |-> fallback]
                 @@ get_value(loaded, section, key, fallback)
    /\ UNCHANGED config
    /\ UNCHANGED outside_config

NextConfig ==
    \/ \E file \in {NoRow, Malformed} \cup [json : ConfigFiles] :
           Config_edit_file(file)
    \/ Config_construct
    \/ \E environment \in Environments :
           Config_get_postgresql_config(environment)
    \/ \E section \in Sections, key \in Keys, fallback \in Fallbacks :
           Config_get_value(section, key, fallback)

SpecConfig == InitService /\ [][NextConfig]_vars

C18_PostgresqlConfig ==
    [][result'.op = "ConfigManager.get_postgresql_config"
       => LET section == loaded["postgresql"]
              key == optionxform(psql_key(result'.environment))
          IN  IF key \in DOMAIN section
              THEN /\ result'.ok
                   /\ result'.value.host = section[key]
                   /\ result'.value.port \in Int
              ELSE result'.raised = "EnvironmentNotFoundError"
      ]_vars

\* C19: get_value returns the configured value when the key exists, the
\* fallback when the key is missing and a fallback is given, and raises
\* ConfigKeyError when the key is missing and no fallback is given.
C19_GetValue ==
    [][result'.op = "ConfigManager.get_value"
       => LET section == result'.section
              key == result'.key
              exists == /\ section \in DOMAIN loaded
                        /\ key \in DOMAIN loaded[section]
          IN  IF exists
              THEN result'.ok /\ result'.value = loaded[section][key]
              ELSE IF result'.fallback # "None"
              THEN result'.ok /\ result'.value = result'.fallback
              ELSE result'.raised = "ConfigKeyError"
      ]_vars

(***************************************************************************)
(* The evaluator page src/app/user_submission_page.py with LoginManager    *)
(* (src/login_manager.py) and DatabaseManager.save_evaluation              *)
(* (src/app/database_manager.py).  The browser session is                  *)
(* auth.session_state.                                                     *)
(***************************************************************************)
\* LoginManager.evaluator_credentials
login_manager_credentials(username) ==
    CASE username = "astam" ->
             [password |-> "A3nR6yP7", institution |-> "MBPCC"]
      [] username = "aalexandrian" ->
             [password |-> "M7jH2xV5", institution |-> "UAB"]
      [] username = "nviscariello" ->
             [password |-> "L8kY5nJ3", institution |-> "UAB"]

PagePasswords == {"A3nR6yP7", "M7jH2xV5", "1232"}

\* LoginManager.evaluator_login: the session state, written on success
evaluator_login(ss, username, password, now) ==
    IF username \in Evaluators
       /\ login_manager_credentials(username).password = password
    THEN Set(Set(Set(Set(Set(ss, "evaluator_logged_in", TRUE),
                         "evaluator_username", username),
                     "user_role", "evaluator"),
                 "evaluator_institution",
                 login_manager_credentials(username).institution),
             "last_activity", now)
    ELSE ss

\* the event numbers of the institution's entries with Selected =
\* 'Select for Evaluation', in the order the page keeps them
assigned_entries(institution) ==
    LET S == {r.data.EventNumber :
                 r \in {x \in get_entries(entries, institution, FALSE) :
                          x.data.Selected = SelectForEvaluation}}
    IN  IF S = {} THEN << >>
        ELSE IF S = {"1", "2"} THEN <<"1", "2">>
        ELSE <<CHOOSE e \in S : TRUE>>

\* the page's view of a logged-in session: the evaluator, the assigned
\* entries and the entry at current_eval_index
page_view ==
    LET ss == auth.session_state
        assigned == assigned_entries(ss["evaluator_institution"])
        index == Get(ss, "current_eval_index", 0)
    IN  [evaluator_username |-> ss["evaluator_username"],
         evaluator_institution |-> ss["evaluator_institution"],
         total_assigned_entries |-> Len(assigned),
         current_eval_index |-> index,
         event_number |-> assigned[index + 1],
         re_evaluating |-> Get(ss, "re_evaluating", FALSE)]

\* db_manager.get_evaluation for the current entry finds a row
previous_evaluation ==
    get_evaluation_rows(evaluations, page_view.evaluator_institution,
                        page_view.evaluator_username,
                        page_view.event_number) # {}

\* a logged-in evaluator with at least one assigned entry
evaluating ==
    /\ Get(auth.session_state, "evaluator_logged_in", FALSE)
    /\ assigned_entries(auth.session_state["evaluator_institution"]) # << >>

\* what the steps of the page leave alone
outside_user_page == <<entries, institution_stats, pc, session, cache,
                       admin, config, history>>

\* the login form of the page
USP_login(username, password) ==
    /\ ~Get(auth.session_state, "evaluator_logged_in", FALSE)
    /\ LET written == evaluator_login(auth.session_state, username,
                                      password, auth.now)
           success == written # auth.session_state
       IN  /\ auth' = [auth EXCEPT !.session_state =
                  IF success THEN Set(written, "current_eval_index", 0)
                  ELSE written]
           /\ result' = [op |-> "user_submission_page.login",
                         ok |-> success]
    /\ UNCHANGED <<evaluations, n_ops>>
    /\ UNCHANGED outside_user_page

\* the buttons Previous Entry and Next Entry
USP_navigate(step) ==
    /\ evaluating
    /\ page_view.current_eval_index + step >= 0
    /\ page_view.current_eval_index + step
           < page_view.total_assigned_entries
    /\ auth' = [auth EXCEPT !.session_state =
           Set(@, "current_eval_index",
               page_view.current_eval_index + step)]
    /\ result' = [op |-> "user_submission_page.navigate", ok |-> TRUE]
    /\ UNCHANGED <<evaluations, n_ops>>
    /\ UNCHANGED outside_user_page

\* the button Edit Evaluation of an entry the evaluator has evaluated
USP_edit_evaluation ==
    /\ evaluating
    /\ previous_evaluation
    /\ ~page_view.re_evaluating
    /\ auth' = [auth EXCEPT !.session_state = Set(@, "re_evaluating", TRUE)]
    /\ result' = [op |-> "user_submission_page.edit", ok |-> TRUE]
    /\ UNCHANGED <<evaluations, n_ops>>
    /\ UNCHANGED outside_user_page

\* the button Submit Evaluation: DatabaseManager.save_evaluation, then the
\* move to the next entry; a database error is reported and nothing is
\* written
USP_submit(summary_score, tag_score, feedback, fails) ==
    /\ evaluating
    /\ ~previous_evaluation \/ page_view.re_evaluating
    /\ IF fails
       THEN /\ result' = [op |-> "user_submission_page.submit",
                          ok |-> FALSE]
            /\ UNCHANGED <<evaluations, auth>>
       ELSE /\ evaluations' = upsert_evaluation(
                    evaluations,
                    EvaluationRow(
                        lower(strip(page_view.evaluator_institution)),
                        page_view.evaluator_username,
                        page_view.event_number,
                        summary_score, tag_score, feedback))
            /\ auth' = [auth EXCEPT !.session_state =
                   IF page_view.current_eval_index
                          < page_view.total_assigned_entries - 1
                   THEN Set(@, "current_eval_index",
                            page_view.current_eval_index + 1)
                   ELSE @]
            /\ result' = [op |-> "user_submission_page.submit",
                          ok |-> TRUE,
                          evaluator |-> page_view.evaluator_username,
                          event_number |-> page_view.event_number]
    /\ n_ops' = n_ops + 1
    /\ UNCHANGED outside_user_page

\* the button Logout: st.session_state.clear()
USP_logout ==
    /\ Get(auth.session_state, "evaluator_logged_in", FALSE)
    /\ auth' = [auth EXCEPT !.session_state = << >>]
    /\ result' = [op |-> "user_submission_page.logout", ok |-> TRUE]
    /\ UNCHANGED <<evaluations, n_ops>>
    /\ UNCHANGED outside_user_page

NextUserPage ==
    \/ \E username \in Evaluators \cup {"mallory"},
          password \in PagePasswords : USP_login(username, password)
    \/ \E step \in {-1, 1} : USP_navigate(step)
    \/ USP_edit_evaluation
    \/ /\ n_ops < MaxPageSubmits
       /\ \E summary_score \in Scores, tag_score \in Scores,
             feedback \in Feedbacks, fails \in BOOLEAN :
             USP_submit(summary_score, tag_score, feedback, fails)
    \/ USP_logout

SpecUserPage == InitSubmit /\ [][NextUserPage]_vars

\* C20: after any sequence of Submit Evaluation actions of the page, the
\* institution_stats row of every institution holds the number of its
\* evaluation rows and the sums of their scores.
C20_PageKeepsTotals ==
    \A inst \in CleanNames :
        \A stats \in get_institution_stats(institution_stats, inst) :
            /\ stats.total_evaluations = TotalsOfRows(inst).total_evaluations
            /\ stats.cumulative_summary
                   = TotalsOfRows(inst).cumulative_summary
            /\ stats.cumulative_tag = TotalsOfRows(inst).cumulative_tag

(***************************************************************************)
(* The evaluator page src/user_submission.py: the evaluations of an entry  *)
(* are the list 'Evaluations' of the entry dictionary, and each session    *)
(* keeps its own copy of the assigned entries.                             *)
(***************************************************************************)
LegacyEntry(e, list) ==
    [EventNumber |-> e, Selected |-> SelectForEvaluation, Payload |-> "a",
     Evaluations |-> list]

\* the evaluators of the two sessions, both of UAB
LegacyEvaluator(s) == IF s = "s1" THEN "aalexandrian" ELSE "nviscariello"

LegacyLocals(s) ==
    [evaluator_username |-> LegacyEvaluator(s),
     evaluator_institution |-> evaluator_credentials[LegacyEvaluator(s)],
     assigned_entries |-> NoRow, current_eval_index |-> 0,
     re_evaluating |-> FALSE, call |-> NoRow, submitted |-> {}]

\* two entries of UAB have been uploaded with save_selected_entries and
\* selected; nobody is logged in twice
InitLegacy ==
    /\ entries = SetToBag({EntryRow("uab", e, LegacyEntry(e, << >>)) :
                              e \in EventNumbers})
    /\ evaluations = EmptyBag
    /\ institution_stats = {}
    /\ pc = [s \in Sessions |-> "idle"]
    /\ session = [s \in Sessions |-> LegacyLocals(s)]
    /\ result = [op |-> "", ok |-> TRUE]
    /\ n_ops = 0
    /\ had_error = FALSE
    /\ applied = [i \in InstNames |-> ZeroTotals]
    /\ last_saved = {}
    /\ last_written = {}
    /\ InitPages
    /\ redis_client =
           [selected_entries |->
                [NoKeys EXCEPT !["UAB"] =
                    [json |-> <<LegacyEntry("1", << >>),
                                LegacyEntry("2", << >>)>>]],
            evaluation_scores |-> NoKeys, stats |-> NoKeys,
                       snapshot |-> NoKeys]
    /\ postgres_manager = [selected_entries |-> NoKeys,
                           evaluation_scores |-> NoKeys,
                           snapshots |-> NoKeys]
    /\ caller = [c \in Callers |-> IdleCaller]
    /\ expected_stats = NoKeys

\* the entry the session shows, from its own copy
current_entry(s) ==
    session[s].assigned_entries.json[session[s].current_eval_index + 1]

\* the evaluations of an entry that carry the evaluator's name
evaluations_by(entry, evaluator) ==
    SelectSeq(entry.Evaluations, LAMBDA ev : ev.Evaluator = evaluator)

\* DatabaseManager.update_institution_stats (src/database_manager.py): the
\* upsert of a new evaluation, or the UPDATE that adds the differences to
\* the row of the institution, if there is one
legacy_update_institution_stats(tbl, c) ==
    LET rows == {r \in tbl : r.institution = c.institution}
    IN  IF c.is_new_evaluation
        THEN IF rows = {}
             THEN tbl \cup {InstitutionStats(c.institution, c.summary_score,
                                             c.tag_score, 1)}
             ELSE (tbl \ rows)
                  \cup {add_evaluation(r, c.summary_score, c.tag_score) :
                           r \in rows}
        ELSE (tbl \ rows)
             \cup {update_evaluation(r, c.old_summary_score, c.summary_score,
                                     c.old_tag_score, c.tag_score) :
                      r \in rows}

outside_legacy == <<evaluations, n_ops, postgres_manager, caller,
                    expected_stats, pages, history>>

\* a run that finds no 'assigned_entries' in the session: the list is read
\* from Redis, filtered and kept
LS_load(s) ==
    /\ pc[s] = "idle"
    /\ session[s].assigned_entries = NoRow
    /\ session' = [session EXCEPT ![s].assigned_entries =
           [json |-> SelectSeq(
                DM_get_selected_entries(session[s].evaluator_institution),
                LAMBDA entry : entry.Selected = SelectForEvaluation)]]
    /\ result' = [op |-> "user_submission.load", ok |-> TRUE]
    /\ UNCHANGED <<entries, institution_stats, redis_client, pc>>
    /\ UNCHANGED outside_legacy

\* the buttons Refresh Data, Previous Entry, Next Entry and Re-Evaluate
\* Entry
LS_button(s, button) ==
    /\ pc[s] = "idle"
    /\ session[s].assigned_entries # NoRow
    /\ LET total == Len(session[s].assigned_entries.json)
           index == session[s].current_eval_index
       IN  CASE button = "Refresh Data" ->
                    session' = [session EXCEPT
                        ![s].assigned_entries = NoRow,
                        ![s].current_eval_index = 0,
                        ![s].re_evaluating = FALSE]
             [] button = "Previous Entry" ->
                    /\ index > 0
                    /\ session' = [session EXCEPT
                           ![s].current_eval_index = index - 1]
             [] button = "Next Entry" ->
                    /\ index < total - 1
                    /\ session' = [session EXCEPT
                           ![s].current_eval_index = index + 1]
             [] button = "Re-Evaluate Entry" ->
                    /\ total > 0
                    /\ evaluations_by(current_entry(s),
                                      session[s].evaluator_username) # << >>
                    /\ ~session[s].re_evaluating
                    /\ session' = [session EXCEPT ![s].re_evaluating = TRUE]
    /\ result' = [op |-> "user_submission.button", ok |-> TRUE]
    /\ UNCHANGED <<entries, institution_stats, redis_client, pc>>
    /\ UNCHANGED outside_legacy

\* Submit Evaluation, up to and including db_manager.update_entry: the
\* evaluation replaces the evaluator's earlier one in the session's copy of
\* the entry, and the copy is written to the table and to the Redis list
LS_submit(s, summary_score, tag_score, feedback) ==
    /\ pc[s] = "idle"
    /\ session[s].assigned_entries # NoRow
    /\ session[s].assigned_entries.json # << >>
    /\ LET me == session[s].evaluator_username
           institution == session[s].evaluator_institution
           previous == evaluations_by(current_entry(s), me)
           updated_entry ==
               [current_entry(s) EXCEPT !.Evaluations =
                   Append(SelectSeq(@, LAMBDA ev : ev.Evaluator # me),
                          [Evaluator |-> me, SummaryScore |-> summary_score,
                           TagScore |-> tag_score, Feedback |-> feedback])]
           matched == {r \in BagToSet(entries) :
                          /\ r.institution = institution
                          /\ r.event_number = updated_entry.EventNumber}
       IN  /\ previous = << >> \/ session[s].re_evaluating
           /\ entries' = MapBag(entries,
                  [r \in BagToSet(entries) |->
                      IF r \in matched THEN [r EXCEPT !.data = updated_entry]
                      ELSE r])
           /\ redis_client' = redis_set_selected_entries(
                  institution,
                  replace_first(DM_get_selected_entries(institution),
                                updated_entry))
           /\ session' = [session EXCEPT
                  ![s].assigned_entries.json[session[s].current_eval_index + 1]
                      = updated_entry,
                  ![s].call =
                      [institution |-> institution,
                       summary_score |-> summary_score,
                       tag_score |-> tag_score,
                       is_new_evaluation |-> (previous = << >>),
                       old_summary_score |->
                           IF previous = << >> THEN 0
                           ELSE previous[1].SummaryScore,
                       old_tag_score |->
                           IF previous = << >> THEN 0
                           ELSE previous[1].TagScore],
                  ![s].submitted = @ \cup {updated_entry.EventNumber}]
           /\ result' = [op |-> "user_submission.submit", ok |-> TRUE,
                         matched |-> Cardinality(matched)]
    /\ pc' = [pc EXCEPT ![s] = "update_institution_stats"]
    /\ n_ops' = n_ops + 1
    /\ UNCHANGED <<evaluations, institution_stats, postgres_manager, caller,
                   expected_stats, pages, history>>

\* the rest of the handler: db_manager.update_institution_stats, then the
\* session leaves re-evaluation and moves to the next entry
LS_update_institution_stats(s) ==
    /\ pc[s] = "update_institution_stats"
    /\ institution_stats' =
           legacy_update_institution_stats(institution_stats, session[s].call)
    /\ session' = [session EXCEPT
           ![s].call = NoRow,
           ![s].re_evaluating = FALSE,
           ![s].current_eval_index =
               IF @ < Len(session[s].assigned_entries.json) - 1
               THEN @ + 1 ELSE @]
    /\ pc' = [pc EXCEPT ![s] = "idle"]
    /\ result' = [op |-> "user_submission.update_institution_stats",
                  ok |-> TRUE]
    /\ UNCHANGED <<entries, redis_client>>
    /\ UNCHANGED outside_legacy

NextLegacy ==
    \E s \in Sessions :
        \/ LS_load(s)
        \/ \E button \in {"Refresh Data", "Previous Entry", "Next Entry",
                          "Re-Evaluate Entry"} : LS_button(s, button)
        \/ /\ n_ops < MaxLegacySubmits
           /\ \E summary_score \in Scores, tag_score \in Scores :
                 LS_submit(s, summary_score, tag_score, "fb")
        \/ LS_update_institution_stats(s)

SpecLegacy == InitLegacy /\ [][NextLegacy]_vars

\* C21: when no submission is in progress, the entry stored for the page
\* lists one evaluation of every evaluator who has submitted one for it,
\* and the number of listed evaluations of the institution equals
\* institution_stats.total_evaluations.
C21_BothEvaluationsKept ==
    (\A s \in Sessions : pc[s] = "idle")
    => LET stored == DM_get_selected_entries("UAB")
           listed == SumOver(1..Len(stored),
                             [i \in 1..Len(stored) |->
                                 Len(stored[i].Evaluations)])
           rows == {r \in institution_stats : r.institution = "UAB"}
       IN  /\ \A s \in Sessions : \A i \in 1..Len(stored) :
                  stored[i].EventNumber \in session[s].submitted
                  => Len(evaluations_by(stored[i],
                                        session[s].evaluator_username)) = 1
           /\ \A r \in rows : r.total_evaluations = listed
           /\ rows = {} => listed = 0

(***************************************************************************)
(* DatabaseService.save_evaluation under concurrent calls.                 *)
(***************************************************************************)
\* the row that the upsert of session s conflicts with, if any
conflicting_rows(s) ==
    LET ev == session[s].evaluation
    IN  unique_evaluation(evaluations,
                          [ev EXCEPT !.institution = lower(ev.institution)])

\* what save_evaluation of session s returns: is_new, computed from the
\* row that get_evaluation returned before the upsert
is_new(s) == session[s].before = NoRow

\* C22: save_evaluation returns True if and only if no evaluation row with
\* the evaluation's (institution, evaluator, entry_number) exists at the
\* moment its upsert takes effect, also when calls for one key run
\* concurrently
C22_IsNewIffNoRowAtUpsert ==
    [][\A s \in Sessions :
          SP_save_evaluation_upsert(s)
          => (is_new(s) <=> conflicting_rows(s) = {})]_vars

(***************************************************************************)
(* The PostgreSQL copy of the stats written by RedisManager.               *)
(***************************************************************************)
\* the stats hash that the institution_stats row of an institution amounts
\* to, NoRow without a row
postgres_stats(i) ==
    LET rows == {r \in institution_stats : r.institution = i}
    IN  IF rows = {} THEN NoRow
        ELSE LET r == CHOOSE r \in rows : TRUE
             IN  Hash(r.cumulative_summary, r.cumulative_tag,
                      r.total_evaluations)

\* C23: once all concurrent calls of RedisManager.update_institution_stats
\* have completed, the PostgreSQL institution_stats row of each institution
\* equals the Redis stats hash of that institution
C23_PostgresEqualsRedis ==
    CallersIdle =>
        \A i \in RMInstitutions : postgres_stats(i) = redis_client.stats[i]

\* C24: after RedisManager.reset_data(I) has completed,
\* RedisManager.get_institution_stats(I) reports cumulative_summary = 0,
\* cumulative_tag = 0 and total_evaluations = 0
C24_ResetZeroesStats ==
    [][\A i \in RMInstitutions :
          RM_reset_data(i)
          => RM_get_institution_stats(i)' = {Hash(0, 0, 0)}]_vars

(***************************************************************************)
(* The unified application on its own: the runs of main_unified.py.        *)
(***************************************************************************)
NextUnified ==
    \/ Auth_tick
    \/ \E click \in Clicks : Main_login(click)
    \/ Main_logout
    \/ \E selected_page \in page_options("admin"), click \in Clicks :
           Main_render(selected_page, click)

SpecUnified == InitService /\ [][NextUnified]_vars

\* C25: in the unified application 'authenticated' is true if and only if
\* 'logged_in' is true, after any sequence of sidebar logins and logouts,
\* SecurePage logouts and session timeouts, and when both are true user_role
\* is 'admin' or 'evaluator'
C25_LoginFlagsAgree ==
    LET ss == auth.session_state
        authenticated == Get(ss, "authenticated", FALSE) = TRUE
        logged_in == Get(ss, "logged_in", FALSE) = TRUE
    IN  /\ authenticated <=> logged_in
        /\ authenticated /\ logged_in
           => Get(ss, "user_role", "None") \in {"admin", "evaluator"}

(***************************************************************************)
(* AuthService on its own: login, logout and check_session_timeout on one  *)
(* session.                                                                *)
(***************************************************************************)
NextAuthService ==
    \/ Auth_tick
    \/ \E username \in Usernames, password \in Passwords :
           Auth_login(username, password)
    \/ Auth_logout
    \/ Auth_check_session_timeout

SpecAuthService == InitService /\ [][NextAuthService]_vars

evaluator_keys ==
    {"evaluator_logged_in", "evaluator_username", "evaluator_institution"}

\* C26: after any sequence of AuthService.login, logout and
\* check_session_timeout calls the evaluator keys are present in the session
\* if and only if user_role is 'evaluator', and then evaluator_username
\* equals username
C26_EvaluatorKeysMatchRole ==
    LET ss == auth.session_state
        is_evaluator == Get(ss, "user_role", "None") = "evaluator"
    IN  /\ \A k \in evaluator_keys : Has(ss, k) <=> is_evaluator
        /\ is_evaluator => ss["evaluator_username"] = ss["username"]

\* the stored entries of an institution that have the status 'Selected'
stored_selected(tbl, institution) ==
    {r \in get_entries(tbl, institution, FALSE) : r.data.Selected = Selected}

\* C27: after 'Select Random' with a count on an institution with N >= 1
\* entries, exactly min(count, N) entries of the institution are stored with
\* the selected status and all its other entries with 'Do Not Select'
C27_SelectRandomSelectsCount ==
    [][\A count \in 1..MaxBatch :
          Admin_select_random_entries(count) /\ result'.ok
          => LET institution == admin.all_entries[1].institution
                 stored == get_entries(entries', institution, FALSE)
                 N == Cardinality(stored)
                 chosen == stored_selected(entries', institution)
             IN  /\ Cardinality(chosen) = IF count < N THEN count ELSE N
                 /\ \A r \in stored \ chosen :
                       r.data.Selected = DoNotSelect]_vars

(***************************************************************************)
(* Termination of the retry loop of RedisManager.update_institution_stats. *)
(***************************************************************************)
\* the callers write the same stats key
NextSameKey ==
    \/ /\ n_ops < MaxCalls
       /\ \E c \in Callers, a \in StatsArgs :
             a.institution = "UAB" /\ RM_update_institution_stats(c, a)
    \/ \E c \in Callers : RM_step(c)

\* every caller is a running thread or process of its own: a call that has
\* a next statement eventually executes it
FairSpecStats ==
    /\ InitStats
    /\ [][NextSameKey]_vars
    /\ \A c \in Callers : WF_vars(RM_step(c))

\* C28: under fair scheduling every call of
\* RedisManager.update_institution_stats eventually executes its transaction
\* and returns, and once the calls have returned the stats hash holds each
\* call's adjustment exactly once, however many times a call was retried
C28_RetryLoopTerminates ==
    /\ \A c \in Callers : (caller[c].pc # "idle") ~> (caller[c].pc = "idle")
    /\ [](CallersIdle =>
            \A i \in RMInstitutions :
               redis_client.stats[i] = expected_stats[i])

\* a call that was retried after a WatchError has returned, and the hash
\* holds the adjustments of both calls
C28_Witness ==
    /\ \E c \in Callers : caller[c].retries = 1 /\ caller[c].pc = "idle"
    /\ \E c \in Callers : caller[c].retries = 0 /\ caller[c].pc = "idle"
    /\ n_ops = MaxCalls
    /\ redis_client.stats["UAB"] = expected_stats["UAB"]
    /\ redis_client.stats["UAB"] # NoRow

(***************************************************************************)
(* SubmissionPage: the index of the current entry (navigation controls,    *)
(* submission, and changes of the selected set by an administrator).       *)
(***************************************************************************)
\* SubmissionPage._render_content: the entries selected for the evaluator's
\* institution
selected_count(s) ==
    Cardinality(get_entries(entries, session[s].evaluator_institution, TRUE))

\* SubmissionPage._render_content: the index that picks the current entry,
\* the session's index unless that is past the end of the list
picked_index(s) ==
    IF session[s].current_entry_index >= selected_count(s) THEN 0
    ELSE session[s].current_entry_index

\* a "Previous" button that steps back without wrapping around
previous_index_unwrapped(current_index, total_entries) == current_index - 1

\* "Previous": new_index = (current_index - 1) % total_entries
previous_index(current_index, total_entries) ==
    (current_index - 1) % total_entries

\* "Next": new_index = (current_index + 1) % total_entries
next_index(current_index, total_entries) ==
    (current_index + 1) % total_entries

NavButtons == {"Previous", "Next", "Random", "Go to"}

\* SubmissionPage._render_navigation_controls: a run in which one of the
\* navigation controls is used; entry_number is the value of the "Go to"
\* number input, new_index the value random.randint draws
SN_navigate(s, button, entry_number, new_index) ==
    /\ AtRest(s)
    /\ selected_count(s) > 0
    /\ LET current_index == picked_index(s)
           total_entries == selected_count(s)
       IN  /\ entry_number \in 1..total_entries
           /\ new_index \in 0..(total_entries - 1)
           /\ CASE button = "Previous" ->
                     session' = [session EXCEPT ![s].current_entry_index =
                         previous_index(current_index, total_entries)]
                [] button = "Next" ->
                     session' = [session EXCEPT ![s].current_entry_index =
                         next_index(current_index, total_entries)]
                [] button = "Random" ->
                     session' = [session EXCEPT ![s].current_entry_index =
                         new_index]
                [] button = "Go to" ->
                     /\ entry_number # current_index + 1
                     /\ session' = [session EXCEPT
                            ![s].current_entry_index = entry_number - 1]
    /\ UNCHANGED <<entries, evaluations, institution_stats, pc, n_ops,
                   had_error, applied>>
    /\ UNCHANGED outside_sessions

\* between two runs of the page an administrator changes the selection
\* status of a stored entry (AdminPage._update_entry_selection and
\* DatabaseService.save_entry)
SN_admin_update_entry_selection(institution, event_number, status) ==
    /\ \E r \in get_entries(entries, institution, FALSE) :
          /\ r.event_number = event_number
          /\ r.data.Selected # status
          /\ entries' = upsert_entry(entries,
                 EntryRow(lower(institution), event_number,
                          [r.data EXCEPT !.Selected = status]))
    /\ UNCHANGED <<evaluations, institution_stats, pc, session, n_ops,
                   had_error, applied>>
    /\ UNCHANGED outside_sessions

NextNavigate ==
    \/ \E s \in Sessions :
          \/ \E button \in NavButtons, entry_number \in 1..MaxEntries,
                new_index \in 0..(MaxEntries - 1) :
                SN_navigate(s, button, entry_number, new_index)
          \/ n_ops < MaxNavSubmits /\ SP_render(s, 1, 1, "")
          \/ SP_save_evaluation_check(s)
          \/ SP_save_evaluation_upsert(s)
          \/ SP_add_evaluation_to_stats_get(s)
          \/ SP_add_evaluation_to_stats_update(s)
          \/ SP_advance(s)
          \/ SP_except(s)
    \/ \E event_number \in EventNumbers, status \in {Selected, DoNotSelect} :
          SN_admin_update_entry_selection("UAB", event_number, status)

\* the evaluator sessions with the navigation controls and an administrator
SpecNavigate == InitSubmit /\ [][NextNavigate]_vars

snapshot_data(institution) ==
    [selected_entries |->
         IF redis_client.selected_entries[institution] = NoRow THEN << >>
         ELSE redis_client.selected_entries[institution].json,
     evaluation_scores |->
         IF redis_client.evaluation_scores[institution] = NoRow THEN << >>
         ELSE redis_client.evaluation_scores[institution].json]

\* RedisSnapshotManager.take_snapshot: the snapshot is set under the key
\* <institution>:snapshot and upserted into the table snapshots
RS_take_snapshot(institution) ==
    /\ redis_client' = [redis_client EXCEPT
           !.snapshot[institution] = [json |-> snapshot_data(institution)]]
    /\ postgres_manager' = [postgres_manager EXCEPT
           !.snapshots[institution] = [json |-> snapshot_data(institution)]]
    /\ result' = [op |-> "RedisSnapshotManager.take_snapshot", ok |-> TRUE,
                  institution |-> institution]
    /\ n_ops' = n_ops + 1
    /\ UNCHANGED <<tables, pc, session, pages, history, caller, expected_stats>>

\* the snapshot that load_snapshot finds: the Redis key, else the row of the
\* table snapshots, else None
stored_snapshot(institution) ==
    IF redis_client.snapshot[institution] # NoRow
    THEN redis_client.snapshot[institution]
    ELSE postgres_manager.snapshots[institution]

\* RedisSnapshotManager.restore_snapshot: the two Redis keys are set
restore_snapshot(redis, institution, data) ==
    [redis EXCEPT
        !.selected_entries[institution] = [json |-> data.selected_entries],
        !.evaluation_scores[institution] = [json |-> data.evaluation_scores]]

\* RedisSnapshotManager.load_snapshot
RS_load_snapshot(institution) ==
    /\ IF stored_snapshot(institution) # NoRow
       THEN redis_client' = restore_snapshot(redis_client, institution,
                                stored_snapshot(institution).json)
       ELSE UNCHANGED redis_client
    /\ result' = [op |-> "RedisSnapshotManager.load_snapshot",
                  ok |-> stored_snapshot(institution) # NoRow,
                  institution |-> institution]
    /\ n_ops' = n_ops + 1
    /\ UNCHANGED <<tables, pc, session, pages, history, postgres_manager,
                   caller, expected_stats>>

NextSnapshot ==
    /\ n_ops < MaxSnapshotOps
    /\ \E i \in RMInstitutions :
          \/ \E selected \in SeqsUpTo(EntryDicts, 1) :
                RM_save_selected_entries(i, selected)
          \/ \E scores \in ScoreDicts : RM_save_evaluation_scores(i, scores)
          \/ RS_take_snapshot(i)
          \/ RS_load_snapshot(i)

\* updates, snapshots and restores, one call at a time
SpecSnapshot == InitStats /\ [][NextSnapshot]_vars

\* C30: after load_snapshot(I) the selected entries and evaluation scores
\* read for institution I equal those stored when take_snapshot(I) ran, in
\* Redis and in PostgreSQL alike, whatever was saved in between
C30_LoadRestoresSnapshot ==
    [][\A i \in RMInstitutions :
          RS_load_snapshot(i) /\ stored_snapshot(i) # NoRow
          => LET data == stored_snapshot(i).json
             IN  /\ RM_get_selected_entries(i)' = data.selected_entries
                 /\ RM_get_evaluation_scores(i)' = data.evaluation_scores
                 /\ PM_selected_entries(i)' = data.selected_entries
                 /\ PM_evaluation_scores(i)' = data.evaluation_scores]_vars

TypeOK ==
    /\ IsABag(entries)
    /\ IsABag(evaluations)
    /\ n_ops \in Nat

====
